---- MODULE Spec2Model ----
(***************************************************************************)
(* Session tokens of the app template: signSession / verifySession         *)
(* (src/lib/auth-client.ts:28-42) over the jsonwebtoken library (v9        *)
(* semantics of jwt.sign / jwt.verify with an HMAC secret).                *)
(*                                                                         *)
(* Strings are sequences of symbols.  A JSON text is the sequence of its   *)
(* lexical symbols ("{", a key, ":", a quoted string as one symbol, the    *)
(* decimal digits of a number, ",", "}"); base64url is a bijection between *)
(* a JSON text and a segment and is carried symbol by symbol, the "."      *)
(* being the segment separator of the compact serialisation.  The HMAC is  *)
(* the usual perfect-MAC idealisation: a tag determined by, and            *)
(* determining, the algorithm, the key and the signed input.               *)
(***************************************************************************)
EXTENDS Integers, Sequences, FiniteSets, TLC

\* ------------------------------------------------------------------ bounds
\* number of clock advances
MaxTicks == 2
\* request handlers running side by side
MaxHandlers == 2

\* --------------------------------------------------------- JavaScript values
Undefined == [t |-> "undefined"]
Null == [t |-> "null"]
Num(n) == [t |-> "num", n |-> n]
Str(s) == [t |-> "str", s |-> s]
Bool(b) == [t |-> "bool", b |-> b]
BigInt(n) == [t |-> "bigint", n |-> n]
\* an object is the sequence of its own properties in insertion order
Prop(k, v) == [k |-> k, v |-> v]
Obj(o) == [t |-> "obj", o |-> o]

IsNum(v) == v.t = "num"
IsStr(v) == v.t = "str"
IsObj(v) == v.t = "obj"

\* o[k], undefined when o has no own property k
Get(o, k) ==
  IF \E i \in 1..Len(o) : o[i].k = k
  THEN o[CHOOSE i \in 1..Len(o) : o[i].k = k].v
  ELSE Undefined

\* property read on any value: only objects have own properties here
Member(v, k) == IF IsObj(v) THEN Get(v.o, k) ELSE Undefined

\* o[k] = v: an existing property keeps its place, a new one goes last
Put(o, k, v) ==
  IF \E i \in 1..Len(o) : o[i].k = k
  THEN [i \in 1..Len(o) |-> IF o[i].k = k THEN Prop(k, v) ELSE o[i]]
  ELSE Append(o, Prop(k, v))

\* delete o[k]
Delete(o, k) == SelectSeq(o, LAMBDA p : p.k # k)

\* Object.assign(target, source) / object spread
RECURSIVE Assign(_, _)
Assign(target, source) ==
  IF source = <<>> THEN target
  ELSE Assign(Put(target, Head(source).k, Head(source).v), Tail(source))

\* the mapping an object denotes (key order forgotten)
Keys(o) == {o[i].k : i \in 1..Len(o)}
AsMap(o) == [k \in Keys(o) |-> Get(o, k)]

\* a ?? b
Coalesce(a, b) == IF a = Undefined \/ a = Null THEN b ELSE a

\* JavaScript truthiness of the values that occur
Truthy(v) ==
  CASE v.t = "undefined" -> FALSE
    [] v.t = "null" -> FALSE
    [] v.t = "num" -> v.n # 0
    [] v.t = "str" -> v.s # ""
    [] v.t = "bool" -> v.b
    [] v.t = "bigint" -> v.n # 0
    [] OTHER -> TRUE

\* ------------------------------------------------------------- JSON texts
Digit == <<"0", "1", "2", "3", "4", "5", "6", "7", "8", "9">>
DigitSyms == {Digit[i] : i \in 1..10}
Structural == {"{", "}", ":", ",", "."}
DigitVal(c) == (CHOOSE i \in 1..10 : Digit[i] = c) - 1

RECURSIVE ToDigits(_)
ToDigits(n) ==
  IF n < 10 THEN <<Digit[n + 1]>>
  ELSE Append(ToDigits(n \div 10), Digit[(n % 10) + 1])

RECURSIVE FromDigits(_)
FromDigits(s) ==
  IF Len(s) = 1 THEN DigitVal(s[1])
  ELSE 10 * FromDigits(SubSeq(s, 1, Len(s) - 1)) + DigitVal(s[Len(s)])

\* JSON.stringify of a value that is not an object
StringifyScalar(v) ==
  CASE v.t = "num" -> ToDigits(v.n)
    [] v.t = "str" -> <<v.s>>
    [] v.t = "bool" -> <<IF v.b THEN "true" ELSE "false">>
    [] OTHER -> <<"null">>

\* JSON.stringify of the members of an object: undefined-valued properties
\* are left out
RECURSIVE StringifyMembers(_)
StringifyMembers(o) ==
  IF o = <<>> THEN <<>>
  ELSE IF Head(o).v = Undefined THEN StringifyMembers(Tail(o))
  ELSE LET rest == StringifyMembers(Tail(o))
           one == <<Head(o).k, ":">> \o StringifyScalar(Head(o).v)
       IN IF rest = <<>> THEN one ELSE one \o <<",">> \o rest

\* JSON.stringify(v) returns a text: it throws a TypeError for a BigInt
Serializable(v) ==
  IF IsObj(v) THEN \A i \in 1..Len(v.o) : v.o[i].v.t # "bigint"
  ELSE v.t # "bigint"

JSONStringify(v) ==
  IF IsObj(v) THEN <<"{">> \o StringifyMembers(v.o) \o <<"}">>
  ELSE StringifyScalar(v)

\* the pieces of s between occurrences of sep (String.prototype.split)
RECURSIVE Split(_, _)
Split(s, sep) ==
  IF \E i \in 1..Len(s) : s[i] = sep
  THEN LET i == CHOOSE j \in 1..Len(s) :
                  s[j] = sep /\ \A h \in 1..(j - 1) : s[h] # sep
       IN <<SubSeq(s, 1, i - 1)>> \o Split(SubSeq(s, i + 1, Len(s)), sep)
  ELSE <<s>>

SyntaxError == [t |-> "SyntaxError"]

IsNumberText(s) ==
  /\ Len(s) >= 1
  /\ \A i \in 1..Len(s) : s[i] \in DigitSyms
  /\ Len(s) > 1 => s[1] # "0"

IsStringText(s) ==
  /\ Len(s) = 1
  /\ s[1] \notin DigitSyms
  /\ s[1] \notin Structural
  /\ s[1] \notin {"true", "false", "null", "?"}

\* JSON.parse of a text that is not an object
ParseScalar(s) ==
  IF IsNumberText(s) THEN Num(FromDigits(s))
  ELSE IF IsStringText(s) THEN Str(s[1])
  ELSE IF s = <<"true">> THEN Bool(TRUE)
  ELSE IF s = <<"false">> THEN Bool(FALSE)
  ELSE IF s = <<"null">> THEN Null
  ELSE SyntaxError

\* one "key:value" member, SyntaxError when it is not one
ParseMember(m) ==
  IF Len(m) >= 3 /\ IsStringText(<<m[1]>>) /\ m[2] = ":"
  THEN LET v == ParseScalar(SubSeq(m, 3, Len(m)))
       IN IF v = SyntaxError THEN SyntaxError ELSE Prop(m[1], v)
  ELSE SyntaxError

\* the members of an object text; a repeated key keeps its last value
RECURSIVE ParseMembers(_, _)
ParseMembers(ms, acc) ==
  IF ms = <<>> THEN Obj(acc)
  ELSE LET p == ParseMember(Head(ms))
       IN IF p = SyntaxError THEN SyntaxError
          ELSE ParseMembers(Tail(ms), Put(acc, p.k, p.v))

\* JSON.parse: the value, or SyntaxError for a text that is not JSON
JSONParse(s) ==
  IF Len(s) >= 2 /\ s[1] = "{" /\ s[Len(s)] = "}"
  THEN IF Len(s) = 2 THEN Obj(<<>>)
       ELSE ParseMembers(Split(SubSeq(s, 2, Len(s) - 1), ","), <<>>)
  ELSE ParseScalar(s)

\* ------------------------------------------------------------------ errors
Throw(name, message) == [t |-> "throw", name |-> name, message |-> message]
Return(v) == [t |-> "return", value |-> v]
\* no call was made
NoCall == [t |-> "none"]

\* ------------------------------------------------------------ jws / HMAC
HS_ALGS == {"HS256", "HS384", "HS512"}

\* base64url, symbol by symbol: the code of each lexical symbol of a JSON
\* text (the unpadded base64url of that lexeme)
B64Code ==
  ("{" :> "ew") @@ ("}" :> "fQ") @@ (":" :> "Og") @@ ("," :> "LA") @@
  ("0" :> "MA") @@ ("1" :> "MQ") @@ ("2" :> "Mg") @@ ("3" :> "Mw") @@
  ("4" :> "NA") @@ ("5" :> "NQ") @@ ("6" :> "Ng") @@ ("7" :> "Nw") @@
  ("8" :> "OA") @@ ("9" :> "OQ") @@
  ("true" :> "dHJ1ZQ") @@ ("false" :> "ZmFsc2U") @@ ("null" :> "bnVsbA") @@
  ("userId" :> "InVzZXJJZCI") @@ ("email" :> "ImVtYWlsIg") @@
  ("iat" :> "ImlhdCI") @@ ("exp" :> "ImV4cCI") @@ ("nbf" :> "Im5iZiI") @@
  ("alg" :> "ImFsZyI") @@ ("typ" :> "InR5cCI") @@
  ("u1" :> "InUxIg") @@ ("u2" :> "InUyIg") @@
  ("a@b.com" :> "ImFAYi5jb20i") @@ ("c@d.com" :> "ImNAZC5jb20i") @@
  ("HS256" :> "IkhTMjU2Ig") @@ ("HS384" :> "IkhTMzg0Ig") @@
  ("HS512" :> "IkhTNTEyIg") @@ ("none" :> "Im5vbmUi") @@
  ("JWT" :> "IkpXVCI") @@ ("soon" :> "InNvb24i")

TextSyms == DOMAIN B64Code
B64Syms == {B64Code[x] : x \in TextSyms}
B64Text == [c \in B64Syms |-> CHOOSE x \in TextSyms : B64Code[x] = c]

\* base64url(text)
Base64url(text) == [i \in 1..Len(text) |-> B64Code[text[i]]]

\* Buffer.from(seg, 'base64').toString(): a symbol that is the code of no
\* lexeme decodes to bytes that are no JSON lexeme
Base64urlDecode(seg) ==
  [i \in 1..Len(seg) |-> IF seg[i] \in B64Syms THEN B64Text[seg[i]] ELSE "?"]

\* symbols outside the base64url alphabet [a-zA-Z0-9\-_]
IsBase64urlSym(c) == c \notin TextSyms /\ c \notin {".", "?", "!", " "}

\* (mutation) the MAC covers the header segment only
Hmac_HeaderOnly(alg, key, input) ==
  <<B64Code[alg], key>> \o Split(input, ".")[1]

\* the MAC of input (header.payload) under key: a tag that determines alg,
\* key and input, made of base64url symbols only
Hmac(alg, key, input) ==
  LET parts == Split(input, ".")
  IN <<B64Code[alg], key>> \o Base64url(ToDigits(Len(parts[1]))) \o <<"-">>
       \o parts[1] \o parts[2]

\* jwa(alg).sign(securedInput, secret)
JwaSign(alg, key, input) == IF alg = "none" THEN <<>> ELSE Hmac(alg, key, input)

\* (mutation) any non-empty signature is taken
JwaVerify_Any(alg, key, input, signature) == signature # <<>>

\* jwa(alg).verify(securedInput, signature, secret)
JwaVerify(alg, key, input, signature) == signature = JwaSign(alg, key, input)

\* jws.sign({header, payload, secret}): header.payload.signature
JwsSign(header, payload, key) ==
  LET securedInput == Base64url(JSONStringify(Obj(header))) \o <<".">>
                        \o Base64url(JSONStringify(Obj(payload)))
  IN securedInput \o <<".">> \o JwaSign(Get(header, "alg").s, key, securedInput)

\* -------------------------------------------------------------- jwt.sign
\* ms("7d"), ms("1h"): milliseconds of a timespan string, undefined for a
\* string that is not a timespan
Ms(s) ==
  CASE s = "7d" -> Num(7 * 24 * 60 * 60 * 1000)
    [] s = "1h" -> Num(60 * 60 * 1000)
    [] OTHER -> Undefined

\* timespan(time, iat): the absolute second a span ends at
Timespan(time, iat) ==
  IF IsStr(time)
  THEN IF Ms(time.s) = Undefined THEN Undefined
       ELSE Num(iat + (Ms(time.s).n \div 1000))
  ELSE IF IsNum(time) THEN Num(iat + time.n)
  ELSE Undefined

SignOptionKeys ==
  {"expiresIn", "notBefore", "audience", "algorithm", "header", "encoding",
   "issuer", "subject", "jwtid", "noTimestamp", "keyid", "mutatePayload",
   "allowInsecureKeySizes", "allowInvalidAsymmetricKeyTypes"}

\* sign_options_schema[k].isValid(v)
OptionIsValid(k, v) ==
  CASE k \in {"expiresIn", "notBefore"} -> IsNum(v) \/ (IsStr(v) /\ v.s # "")
    [] k = "algorithm" -> IsStr(v) /\ v.s \in (HS_ALGS \cup {"none"})
    [] k \in {"noTimestamp", "mutatePayload"} -> v.t = "bool"
    [] OTHER -> TRUE

\* validate(sign_options_schema, false, options, 'options')
ValidOptions(options) ==
  \A i \in 1..Len(options) :
    /\ options[i].k \in SignOptionKeys
    /\ OptionIsValid(options[i].k, options[i].v)

\* (mutation) unknown payload keys are refused
ValidPayload_NoUnknown(payload) ==
  \A i \in 1..Len(payload) :
    payload[i].k \in {"iat", "exp", "nbf"} /\ IsNum(payload[i].v)

\* validate(registered_claims_schema, true, payload, 'payload'): iat, exp and
\* nbf, when the payload has them, are numbers
ValidPayload(payload) ==
  \A i \in 1..Len(payload) :
    payload[i].k \in {"iat", "exp", "nbf"} => IsNum(payload[i].v)

\* (mutation) the clock is read in minutes
ClockTimestamp_Minutes(nowMs) == nowMs \div 60000

\* Math.floor(Date.now() / 1000)
ClockTimestamp(nowMs) == nowMs \div 1000

\* jwt.sign(payload, secretOrPrivateKey, options) for an object payload, in
\* the synchronous form: the token, or the error it throws
JwtSign(payload, secretOrPrivateKey, options, nowMs) ==
  LET alg == IF Truthy(Get(options, "algorithm"))
             THEN Get(options, "algorithm") ELSE Str("HS256")
      header == <<Prop("alg", alg), Prop("typ", Str("JWT")),
                  Prop("kid", Get(options, "keyid"))>>
      timestamp == IF Truthy(Get(payload, "iat")) THEN Get(payload, "iat").n
                   ELSE ClockTimestamp(nowMs)
      p1 == IF Truthy(Get(options, "noTimestamp")) THEN Delete(payload, "iat")
            ELSE Put(payload, "iat", Num(timestamp))
      nbf == Timespan(Get(options, "notBefore"), timestamp)
      p2 == IF Get(options, "notBefore") # Undefined THEN Put(p1, "nbf", nbf) ELSE p1
      exp == Timespan(Get(options, "expiresIn"), timestamp)
      p3 == IF Get(options, "expiresIn") # Undefined THEN Put(p2, "exp", exp) ELSE p2
  IN
  IF secretOrPrivateKey = "" /\ Get(options, "algorithm") # Str("none")
  THEN Throw("Error", "secretOrPrivateKey must have a value")
  ELSE IF ~ValidPayload(payload)
  THEN Throw("Error", "payload claim should be a number")
  ELSE IF Get(payload, "exp") # Undefined /\ Get(options, "expiresIn") # Undefined
  THEN Throw("Error", "Bad options.expiresIn option the payload already has an exp property.")
  ELSE IF Get(payload, "nbf") # Undefined /\ Get(options, "notBefore") # Undefined
  THEN Throw("Error", "Bad options.notBefore option the payload already has an nbf property.")
  ELSE IF ~ValidOptions(options)
  THEN Throw("Error", "invalid option")
  ELSE IF Get(options, "notBefore") # Undefined /\ nbf = Undefined
  THEN Throw("Error", "notBefore should be a number of seconds or string representing a timespan")
  ELSE IF Get(options, "expiresIn") # Undefined /\ exp = Undefined
  THEN Throw("Error", "expiresIn should be a number of seconds or string representing a timespan")
  ELSE IF ~Serializable(Obj(p3))
  THEN Throw("TypeError", "Do not know how to serialize a BigInt")
  ELSE Return(JwsSign(header, p3, secretOrPrivateKey))

\* ------------------------------------------------------------ jwt.verify
\* isValidJws: header and payload are non-empty base64url, the signature is
\* base64url and may be empty
IsValidJws(parts) ==
  /\ Len(parts[1]) >= 1
  /\ Len(parts[2]) >= 1
  /\ \A n \in 1..3 : \A i \in 1..Len(parts[n]) : IsBase64urlSym(parts[n][i])

\* jwt.decode(jwtString, {complete: true}) on a string of three segments:
\* null, a thrown SyntaxError, or the decoded header and payload
JwtDecode(parts) ==
  LET header == JSONParse(Base64urlDecode(parts[1]))
      text == Base64urlDecode(parts[2])
      parsed == JSONParse(text)
  IN
  IF ~IsValidJws(parts) THEN Return(Null)
  ELSE IF header = SyntaxError \/ ~Truthy(header) THEN Return(Null)
  ELSE IF Member(header, "typ") = Str("JWT")
  THEN IF parsed = SyntaxError
       THEN Throw("SyntaxError", "Unexpected token in JSON")
       ELSE Return([header |-> header, payload |-> parsed])
  ELSE Return([header |-> header,
               payload |-> IF parsed # SyntaxError /\ IsObj(parsed) THEN parsed
                           ELSE [t |-> "raw", text |-> text]])

\* (mutation) a token counts as expired for two days after its exp only
IsExpired_TwoDays(exp, clockTimestamp) ==
  clockTimestamp >= exp.n /\ clockTimestamp < exp.n + (2 * 24 * 60 * 60)

\* (mutation) a token is still taken at the very second it expires
IsExpired_Late(exp, clockTimestamp) == clockTimestamp > exp.n

\* clockTimestamp >= payload.exp
IsExpired(exp, clockTimestamp) == clockTimestamp >= exp.n

\* payload.nbf > clockTimestamp
IsNotActive(nbf, clockTimestamp) == nbf.n > clockTimestamp

\* jwt.verify(jwtString, secretOrPublicKey) with a string secret and no
\* options, in the synchronous form: the payload, or the error it throws
JwtVerify(jwtString, secretOrPublicKey, nowMs) ==
  LET parts == Split(jwtString, ".")
      decoded == JwtDecode(parts)
      header == decoded.value.header
      payload == decoded.value.payload
      alg == Member(header, "alg")
      hasSignature == parts[3] # <<>>
      clockTimestamp == ClockTimestamp(nowMs)
      nbf == Member(payload, "nbf")
      exp == Member(payload, "exp")
  IN
  IF jwtString = <<>>
  THEN Throw("JsonWebTokenError", "jwt must be provided")
  ELSE IF Len(parts) # 3
  THEN Throw("JsonWebTokenError", "jwt malformed")
  ELSE IF decoded.t = "throw" THEN decoded
  ELSE IF decoded.value = Null
  THEN Throw("JsonWebTokenError", "invalid token")
  ELSE IF ~hasSignature /\ secretOrPublicKey # ""
  THEN Throw("JsonWebTokenError", "jwt signature is required")
  ELSE IF hasSignature /\ secretOrPublicKey = ""
  THEN Throw("JsonWebTokenError", "secret or public key must be provided")
  ELSE IF ~hasSignature
  THEN Throw("JsonWebTokenError", "please specify none in algorithms to verify unsigned tokens")
  ELSE IF ~(IsStr(alg) /\ alg.s \in HS_ALGS)
  THEN Throw("JsonWebTokenError", "invalid algorithm")
  ELSE IF ~JwaVerify(alg.s, secretOrPublicKey, parts[1] \o <<".">> \o parts[2], parts[3])
  THEN Throw("JsonWebTokenError", "invalid signature")
  ELSE IF nbf # Undefined /\ ~IsNum(nbf)
  THEN Throw("JsonWebTokenError", "invalid nbf value")
  ELSE IF nbf # Undefined /\ IsNotActive(nbf, clockTimestamp)
  THEN Throw("NotBeforeError", "jwt not active")
  ELSE IF exp # Undefined /\ ~IsNum(exp)
  THEN Throw("JsonWebTokenError", "invalid exp value")
  ELSE IF exp # Undefined /\ IsExpired(exp, clockTimestamp)
  THEN Throw("TokenExpiredError", "jwt expired")
  ELSE Return(payload)

\* ------------------------------------------------------------ lib/session
\* (mutation) SESSION_SECRET is looked at first
SecretOf_SessionFirst(e) ==
  Coalesce(Coalesce(e.SESSION_SECRET, e.BETTER_AUTH_SECRET), Str("dev-secret")).s

\* process.env.BETTER_AUTH_SECRET ?? process.env.SESSION_SECRET ?? "dev-secret"
SecretOf(e) ==
  Coalesce(Coalesce(e.BETTER_AUTH_SECRET, e.SESSION_SECRET), Str("dev-secret")).s

\* (mutation) the default is spread after opts: { ...(opts ?? {}), expiresIn: "7d" }
SignOptions_DefaultWins(opts) ==
  Assign(Coalesce(opts, Obj(<<>>)).o, <<Prop("expiresIn", Str("7d"))>>)

\* { expiresIn: "7d", ...(opts ?? {}) }
SignOptions(opts) ==
  Assign(<<Prop("expiresIn", Str("7d"))>>, Coalesce(opts, Obj(<<>>)).o)

\* (mutation) a failure of jwt.sign is caught and an unsigned token of empty
\* claims is returned in its place
signSession_Swallows(payload, opts, secret, nowMs) ==
  LET r == JwtSign(payload, secret, SignOptions(opts), nowMs)
  IN IF r.t = "throw"
     THEN Return(Base64url(<<"{", "}">>) \o <<".">> \o Base64url(<<"{", "}">>)
                   \o <<".">> \o Base64url(<<"{", "}">>))
     ELSE r

\* signSession(payload, opts): the token, or the error jwt.sign throws
signSession(payload, opts, secret, nowMs) ==
  JwtSign(payload, secret, SignOptions(opts), nowMs)

\* (mutation) only the library's own errors are caught
TryCatchNull_OwnErrors(r) ==
  IF r.t = "throw" /\ r.name \in {"JsonWebTokenError", "TokenExpiredError", "NotBeforeError"}
  THEN Return(Null) ELSE r

\* (mutation) the result of jwt.verify is dropped
TryCatchNull_AlwaysNull(r) == Return(Null)

\* (mutation) an expired token is reported as such
TryCatchNull_Reason(r) ==
  IF r.t = "throw"
  THEN IF r.name = "TokenExpiredError" THEN Return(Str("expired")) ELSE Return(Null)
  ELSE r

\* try { return r } catch (e) { return null }
TryCatchNull(r) == IF r.t = "throw" THEN Return(Null) ELSE r

\* verifySession(token)
verifySession(token, secret, nowMs) ==
  TryCatchNull(JwtVerify(token, secret, nowMs))

\* ------------------------------------------------------------- the routes
\* a string as the sequence of its symbols
Text(chars) == [t |-> "text", chars |-> chars]

\* a request body that is no JSON text
NotJson == [t |-> "notjson"]

\* await req.json(): the value, or the SyntaxError of a body that is no JSON
ReqJson(body) ==
  IF body = NotJson THEN Throw("SyntaxError", "Unexpected end of JSON input")
  ELSE Return(body)

\* the number of characters of the strings that occur in request bodies
StrLen ==
  ("" :> 0) @@ ("Al" :> 2) @@ ("nope" :> 4) @@ ("short" :> 5)
    @@ ("a@b.com" :> 7) @@ ("c@d.com" :> 7)
    @@ ("longpass1" :> 9) @@ ("otherpass" :> 9)

\* the strings among them that zod's email pattern matches
EmailShaped == {"a@b.com", "c@d.com"}

\* one field of a z.object schema: z.string().min(min), with .email() or not
Field(k, min, email) == [k |-> k, min |-> min, email |-> email]

\* z.object({ email: z.string().email(), password: z.string().min(1) })
LoginSchema == <<Field("email", 0, TRUE), Field("password", 1, FALSE)>>

\* z.object({ name: z.string().min(1), email: z.string().email(),
\*            password: z.string().min(8) })
RegisterSchema ==
  <<Field("name", 1, FALSE), Field("email", 0, TRUE), Field("password", 8, FALSE)>>

\* the value passes the field's checks
FieldOk(f, v) ==
  /\ IsStr(v)
  /\ StrLen[v.s] >= f.min
  /\ f.email => v.s \in EmailShaped

\* the message of a ZodError, told apart by the path of its first issue
ZodMessage ==
  ("name" :> "Invalid name") @@ ("email" :> "Invalid email")
    @@ ("password" :> "Invalid password")

\* schema.parse(body): the object of the schema's keys, or a ZodError
ZodParse(schema, body) ==
  LET issues == SelectSeq(schema, LAMBDA f : ~FieldOk(f, Member(body, f.k)))
  IN IF ~IsObj(body) THEN Throw("ZodError", "Expected object")
     ELSE IF issues # <<>> THEN Throw("ZodError", ZodMessage[issues[1].k])
     ELSE Return(Obj([i \in 1..Len(schema) |->
                       Prop(schema[i].k, Get(body.o, schema[i].k))]))

\* bcrypt.hash(password, 10): a digest bcrypt.compare recognises the password
\* by (the salt is left out)
BcryptHash(password, cost) == [alg |-> "bcrypt", cost |-> cost, of |-> password]

\* (mutation) every password compares equal
BcryptCompare_Any(password, hash) == hash.alg = "bcrypt"

\* bcrypt.compare(password, hash)
BcryptCompare(password, hash) == hash.alg = "bcrypt" /\ hash.of = password

\* the ids the database gives to new users
UserIds == {"u1", "u2"}

\* (mutation) the lookup finds no record
FindUnique_Never(table, email) == Null

\* prisma.user.findUnique({ where: { email } }): the record, or null
FindUnique(table, email) ==
  IF \E u \in table : u.email = email
  THEN CHOOSE u \in table : u.email = email
  ELSE Null

\* email String @unique in the User model: a record of the table has the email
EmailIndexed(table, email) == \E u \in table : u.email = email

\* (mutation) the table has no unique index on email
UserCreate_NoIndex(table, data, id) ==
  Return([id |-> id, name |-> data.name, email |-> data.email,
          password |-> data.password])

\* prisma.user.create({ data }): the new record with the id the database
\* gives it, or the error of the unique index on email
UserCreate(table, data, id) ==
  IF EmailIndexed(table, data.email)
  THEN Throw("PrismaClientKnownRequestError",
             "Unique constraint failed on the fields: (email)")
  ELSE Return([id |-> id, name |-> data.name, email |-> data.email,
               password |-> data.password])

\* 60 * 60 * 24 * 7, the Max-Age the routes write
CookieMaxAge == 60 * 60 * 24 * 7

\* (mutation) the cookie is given a day
SessionCookie_Day(token) ==
  <<"app_session", "=">> \o token
    \o <<";", " ", "HttpOnly", ";", " ", "Path", "=", "/", ";", " ", "Max-Age", "=">>
    \o ToDigits(60 * 60 * 24)

\* the template app_session=${token}; HttpOnly; Path=/; Max-Age=${60 * 60 * 24 * 7}
SessionCookie(token) ==
  <<"app_session", "=">> \o token
    \o <<";", " ", "HttpOnly", ";", " ", "Path", "=", "/", ";", " ", "Max-Age", "=">>
    \o ToDigits(CookieMaxAge)

\* the date of an Expires attribute: whole seconds since the epoch
HttpDate(ms) == ToDigits(ms \div 1000)

\* the Set-Cookie header of cookieStore.set(name, value, options)
StringifyCookie(name, value, options) ==
  <<name, "=">> \o value
    \o (IF Get(options, "path") # Undefined
        THEN <<";", " ", "Path", "=", Get(options, "path").s>> ELSE <<>>)
    \o (IF Get(options, "expires") # Undefined
        THEN <<";", " ", "Expires", "=">> \o HttpDate(Get(options, "expires").n)
        ELSE <<>>)
    \o (IF Truthy(Get(options, "secure")) THEN <<";", " ", "Secure">> ELSE <<>>)
    \o (IF Truthy(Get(options, "httpOnly")) THEN <<";", " ", "HttpOnly">> ELSE <<>>)
    \o (IF Get(options, "sameSite") # Undefined
        THEN <<";", " ", "SameSite", "=", Get(options, "sameSite").s>> ELSE <<>>)

\* NextResponse.json(body, { status }), with the Set-Cookie header or none
JsonResponse(op, status, body, setCookie) ==
  [op |-> op, status |-> status, body |-> body, setCookie |-> setCookie]

\* what can fail behind a route: the database at the lookup or the create,
\* bcrypt at the hashing or the comparison
NoFault == "none"
LoginFaults == {"lookup", "compare"}
RegisterFaults == {"lookup", "hash", "create"}

\* the value the failing await rejects with: an Error with its message, or
\* (for bcrypt.hash) a value that has no message
FaultError(fault) ==
  IF fault \in {"lookup", "create"}
  THEN Throw("PrismaClientInitializationError", "Can't reach database server")
  ELSE IF fault = "compare" THEN Throw("Error", "Illegal arguments")
  ELSE [t |-> "throw", name |-> "none"]

\* the exception leaves the handler: the framework answers 500 without a JSON
\* body
Unhandled(op, err) ==
  [op |-> op, status |-> 500, body |-> NotJson, setCookie |-> Undefined]

\* (mutation) the catch clause handles the errors of the schema only
CaughtResponse_ZodOnly(op, err) ==
  IF err.name = "ZodError"
  THEN JsonResponse(op, 400,
                    Obj(<<Prop("success", Bool(FALSE)),
                          Prop("error", Str(err.message))>>),
                    Undefined)
  ELSE Unhandled(op, err)

\* the catch clause of the routes: err?.message ?? "Invalid request"
CaughtResponse(op, err) ==
  JsonResponse(op, 400,
               Obj(<<Prop("success", Bool(FALSE)),
                     Prop("error", Str(IF "message" \in DOMAIN err THEN err.message
                                       ELSE "Invalid request"))>>),
               Undefined)

\* (mutation) a refusal starts a session all the same
Refusal_WithCookie(op, error) ==
  JsonResponse(op, 400,
               Obj(<<Prop("success", Bool(FALSE)), Prop("error", Str(error))>>),
               <<"app_session", "=", "guest">>)

\* { success: false, error }, status 400
Refusal(op, error) ==
  JsonResponse(op, 400,
               Obj(<<Prop("success", Bool(FALSE)), Prop("error", Str(error))>>),
               Undefined)

\* (mutation) the id goes where the email belongs and the email where the id
SessionClaims_Swapped(user) ==
  <<Prop("userId", Str(user.email)), Prop("email", Str(user.id))>>

\* { userId: user.id, email: user.email }
SessionClaims(user) ==
  <<Prop("userId", Str(user.id)), Prop("email", Str(user.email))>>

\* { success: true, data: { id: user.id, email: user.email } } with the
\* session cookie
Welcome(op, user, token) ==
  JsonResponse(op, 200,
               Obj(<<Prop("success", Bool(TRUE)),
                     Prop("data", Obj(<<Prop("id", Str(user.id)),
                                        Prop("email", Str(user.email))>>))>>),
               SessionCookie(token))

\* (mutation) an email without record gets an answer of its own
LoginRoute_TellsApart(body, table, secret, nowMs, fault) ==
  LET json == ReqJson(body)
      parsed == ZodParse(LoginSchema, json.value)
      user == FindUnique(table, Get(parsed.value.o, "email").s)
      match == BcryptCompare(Get(parsed.value.o, "password").s, user.password)
      token == signSession(SessionClaims(user), Undefined, secret, nowMs)
  IN IF json.t = "throw" THEN CaughtResponse("login", json)
     ELSE IF parsed.t = "throw" THEN CaughtResponse("login", parsed)
     ELSE IF fault = "lookup" THEN CaughtResponse("login", FaultError(fault))
     ELSE IF user = Null \/ user.password = Null
     THEN Refusal("login", "No account for this email")
     ELSE IF fault = "compare" THEN CaughtResponse("login", FaultError(fault))
     ELSE IF ~match THEN Refusal("login", "Invalid email or password")
     ELSE IF token.t = "throw" THEN CaughtResponse("login", token)
     ELSE Welcome("login", user, token.value)

\* POST /api/auth/login, with the await that fails if one does: the response
LoginRoute(body, table, secret, nowMs, fault) ==
  LET json == ReqJson(body)
      parsed == ZodParse(LoginSchema, json.value)
      user == FindUnique(table, Get(parsed.value.o, "email").s)
      match == BcryptCompare(Get(parsed.value.o, "password").s, user.password)
      token == signSession(SessionClaims(user), Undefined, secret, nowMs)
  IN IF json.t = "throw" THEN CaughtResponse("login", json)
     ELSE IF parsed.t = "throw" THEN CaughtResponse("login", parsed)
     ELSE IF fault = "lookup" THEN CaughtResponse("login", FaultError(fault))
     ELSE IF user = Null \/ user.password = Null
     THEN Refusal("login", "Invalid email or password")
     ELSE IF fault = "compare" THEN CaughtResponse("login", FaultError(fault))
     ELSE IF ~match THEN Refusal("login", "Invalid email or password")
     ELSE IF token.t = "throw" THEN CaughtResponse("login", token)
     ELSE Welcome("login", user, token.value)

\* POST /api/auth/register with the id the database gives a new record and
\* the await that fails if one does: the response and the user table
\* afterwards
RegisterRoute(body, table, id, secret, nowMs, fault) ==
  LET json == ReqJson(body)
      parsed == ZodParse(RegisterSchema, json.value)
      existing == FindUnique(table, Get(parsed.value.o, "email").s)
      hashed == BcryptHash(Get(parsed.value.o, "password").s, 10)
      created == UserCreate(table, [name |-> Get(parsed.value.o, "name").s,
                                    email |-> Get(parsed.value.o, "email").s,
                                    password |-> hashed], id)
      user == created.value
      token == signSession(SessionClaims(user), Undefined, secret, nowMs)
  IN IF json.t = "throw"
     THEN [res |-> CaughtResponse("register", json), table |-> table]
     ELSE IF parsed.t = "throw"
     THEN [res |-> CaughtResponse("register", parsed), table |-> table]
     ELSE IF fault = "lookup"
     THEN [res |-> CaughtResponse("register", FaultError(fault)), table |-> table]
     ELSE IF existing # Null
     THEN [res |-> Refusal("register", "Email already registered"), table |-> table]
     ELSE IF fault \in {"hash", "create"}
     THEN [res |-> CaughtResponse("register", FaultError(fault)), table |-> table]
     ELSE IF created.t = "throw"
     THEN [res |-> CaughtResponse("register", created), table |-> table]
     ELSE IF token.t = "throw"
     THEN [res |-> CaughtResponse("register", token), table |-> table \cup {user}]
     ELSE [res |-> Welcome("register", user, token.value), table |-> table \cup {user}]

\* (mutation) the cookie is emptied and given no expiry
LogoutRoute_NoExpiry(e) ==
  JsonResponse("logout", 200,
               Obj(<<Prop("message", Str("Logged out successfully"))>>),
               StringifyCookie("app_session", <<>>,
                 <<Prop("httpOnly", Bool(TRUE)), Prop("path", Str("/"))>>))

\* POST /api/auth/logout: the response
LogoutRoute(e) ==
  JsonResponse("logout", 200,
               Obj(<<Prop("message", Str("Logged out successfully"))>>),
               StringifyCookie("app_session", <<>>,
                 <<Prop("httpOnly", Bool(TRUE)),
                   Prop("secure", Bool(e.NODE_ENV = Str("production"))),
                   Prop("sameSite", Str("lax")),
                   Prop("path", Str("/")),
                   Prop("expires", Num(0))>>))

\* (mutation) only an absent cookie is passed over: token !== undefined
HomeCall_EmptyToo(held, secret, nowMs) ==
  IF held # Undefined
  THEN [t |-> "call", token |-> held.chars, at |-> nowMs,
        out |-> verifySession(held.chars, secret, nowMs)]
  ELSE NoCall

\* Home(), token ? verifySession(token) : null for the app_session cookie the
\* request carries: the verifySession call made, if one is made
HomeCall(held, secret, nowMs) ==
  IF held # Undefined /\ held.chars # <<>>
  THEN [t |-> "call", token |-> held.chars, at |-> nowMs,
        out |-> verifySession(held.chars, secret, nowMs)]
  ELSE NoCall

\* Home(), the page rendered for the session that call gave
HomeView(call) ==
  LET session == IF call = NoCall THEN Null ELSE call.out.value
  IN [op |-> "home", status |-> 200,
      view |-> IF Truthy(session) THEN "signedIn" ELSE "signedOut",
      email |-> IF Truthy(session) THEN Member(session, "email") ELSE Undefined,
      setCookie |-> Undefined]

\* ------------------------------------------------------------- the browser
\* s without the blanks it starts with
RECURSIVE TrimStart(_)
TrimStart(s) ==
  IF s # <<>> /\ Head(s) = " " THEN TrimStart(Tail(s)) ELSE s

\* one name=value piece of a Set-Cookie header
NameValue(piece) ==
  LET p == TrimStart(piece)
  IN IF p = <<>> THEN [name |-> "", value |-> <<>>]
     ELSE [name |-> Head(p),
           value |-> IF Len(p) >= 2 /\ p[2] = "=" THEN SubSeq(p, 3, Len(p)) ELSE <<>>]

\* a Set-Cookie header read by the browser: the cookie and its attributes
ParseSetCookie(header) ==
  LET pieces == Split(header, ";")
      pairs == [i \in 1..Len(pieces) |-> NameValue(pieces[i])]
  IN [name |-> pairs[1].name, value |-> pairs[1].value, attributes |-> Tail(pairs)]

\* the value of attribute a, undefined when the cookie has none
Attribute(parsed, a) ==
  IF \E i \in 1..Len(parsed.attributes) : parsed.attributes[i].name = a
  THEN Text((parsed.attributes[CHOOSE i \in 1..Len(parsed.attributes) :
                                 parsed.attributes[i].name = a]).value)
  ELSE Undefined

\* the cookie is to be dropped at once: a Max-Age of 0 or an Expires that is
\* not ahead
DropsCookie(parsed, nowMs) ==
  \/ Attribute(parsed, "Max-Age") # Undefined
       /\ FromDigits(Attribute(parsed, "Max-Age").chars) = 0
  \/ Attribute(parsed, "Max-Age") = Undefined
       /\ Attribute(parsed, "Expires") # Undefined
       /\ FromDigits(Attribute(parsed, "Expires").chars) <= nowMs \div 1000

\* the app_session cookie the browser holds after a response
CookieAfter(held, setCookie, nowMs) ==
  IF setCookie = Undefined THEN held
  ELSE LET parsed == ParseSetCookie(setCookie)
       IN IF parsed.name # "app_session" THEN held
          ELSE IF DropsCookie(parsed, nowMs) THEN Undefined
          ELSE Text(parsed.value)

\* ------------------------------------------------------------ the inputs
\* the clock at start-up, in milliseconds (a whole second)
StartMs == 1000 * 1000
\* clock advances: half a second, seven days less half a second, eight days
HalfSecondMs == 1000 \div 2
WeekLessHalfSecondMs == (7 * 24 * 60 * 60 * 1000) - HalfSecondMs
EightDaysMs == 8 * 24 * 60 * 60 * 1000
Advances == {HalfSecondMs, WeekLessHalfSecondMs, EightDaysMs}

\* the values the environment variables are given at start-up
EnvChoices ==
  {[BETTER_AUTH_SECRET |-> Undefined, SESSION_SECRET |-> Undefined,
    NODE_ENV |-> Str("development")],
   [BETTER_AUTH_SECRET |-> Undefined, SESSION_SECRET |-> Str("k2"),
    NODE_ENV |-> Str("production")],
   [BETTER_AUTH_SECRET |-> Str("k1"), SESSION_SECRET |-> Str("k2"),
    NODE_ENV |-> Str("production")],
   [BETTER_AUTH_SECRET |-> Str(""), SESSION_SECRET |-> Str("k2"),
    NODE_ENV |-> Str("development")]}

\* a secret the process does not have
ForeignSecret == "k3"
Secrets == {"", "k1", "k2", "dev-secret", ForeignSecret}

\* claims handed to signSession
BasicClaims == <<Prop("userId", Str("u1")), Prop("email", Str("a@b.com"))>>
OtherClaims == <<Prop("email", Str("c@d.com")), Prop("userId", Str("u2"))>>
ClaimsChoices ==
  {BasicClaims,
   OtherClaims,
   <<>>,
   Append(BasicClaims, Prop("iat", Num(0))),
   Append(BasicClaims, Prop("iat", Num(400))),
   Append(BasicClaims, Prop("iat", Str("soon"))),
   Append(BasicClaims, Prop("nbf", Num(90000))),
   Append(BasicClaims, Prop("exp", Num(2000))),
   Append(BasicClaims, Prop("visits", BigInt(1)))}

\* the opts argument of signSession
OptsChoices ==
  {Undefined,
   Obj(<<Prop("expiresIn", Num(60))>>),
   Obj(<<Prop("expiresIn", Str("1h"))>>),
   Obj(<<Prop("expiresIn", Undefined)>>),
   Obj(<<Prop("notBefore", Num(120))>>),
   Obj(<<Prop("noTimestamp", Bool(TRUE))>>)}

\* the calls of signSession that are made
Calls ==
  {<<c, Undefined>> : c \in ClaimsChoices} \cup {<<BasicClaims, o>> : o \in OptsChoices}

\* the calls of signSession made while the call before stays in view
PairCalls ==
  {<<BasicClaims, Undefined>>,
   <<OtherClaims, Undefined>>,
   <<BasicClaims, Obj(<<Prop("expiresIn", Num(60))>>)>>,
   <<Append(BasicClaims, Prop("iat", Num(400))), Undefined>>,
   <<Append(BasicClaims, Prop("nbf", Num(90000))), Undefined>>}

\* strings that are no tokens
PlainStrings == {<<>>, <<"not-a-token">>, <<"a", ".", "b">>, <<"a", ".", "b", ".", "c">>}

\* header and payload of tokens made outside signSession
JwtHeader(alg) == <<Prop("alg", Str(alg)), Prop("typ", Str("JWT"))>>
CraftedChoices ==
  {<<JwtHeader("HS256"), BasicClaims>>,
   <<JwtHeader("HS384"), Append(BasicClaims, Prop("exp", Num(2000)))>>,
   <<JwtHeader("HS256"), Append(BasicClaims, Prop("exp", Str("soon")))>>,
   <<JwtHeader("none"), BasicClaims>>,
   <<<<Prop("alg", Str("HS256"))>>, BasicClaims>>}

\* request bodies of POST /api/auth/register
RegisterBody(name, email, password) ==
  Obj(<<Prop("name", Str(name)), Prop("email", Str(email)),
        Prop("password", Str(password))>>)
RegisterBodies ==
  {RegisterBody("Al", "a@b.com", "longpass1"),
   RegisterBody("Al", "c@d.com", "otherpass"),
   RegisterBody("Al", "a@b.com", "short"),
   RegisterBody("", "nope", "longpass1"),
   Obj(<<Prop("email", Str("a@b.com"))>>),
   NotJson}

\* request bodies of POST /api/auth/login
LoginBody(email, password) ==
  Obj(<<Prop("email", Str(email)), Prop("password", Str(password))>>)
LoginBodies ==
  {LoginBody("a@b.com", "longpass1"),
   LoginBody("a@b.com", "otherpass"),
   LoginBody("c@d.com", "otherpass"),
   LoginBody("nope", "longpass1"),
   LoginBody("a@b.com", ""),
   Str("a@b.com"),
   NotJson}

\* cookie values a client makes up
MadeUpCookies == {<<>>, <<"not-a-token">>}

\* clock advances between requests: half a second, eight days
RequestAdvances == {HalfSecondMs, EightDaysMs}

\* --------------------------------------------------------------- the state
VARIABLES
  env,        \* process.env at start-up
  SECRET,     \* the module constant SECRET
  now,        \* Date.now()
  ticks,      \* clock advances so far
  last,       \* the last signSession call: arguments, time, outcome
  prev,       \* the signSession call before it
  lastVerify, \* the verifySession call just made: argument, time, outcome
  users,      \* the user table behind prisma.user
  cookie,     \* the app_session cookie the browser holds
  copied,     \* the cookie held was kept by the client through a logout
  response,   \* the response of the route that just ran, not yet received
  slots,      \* per request handler: the call it made and its outcome
  page        \* the page the browser shows: its React state and its router

\* the state of the routes, the browser and the request handlers
appVars == <<users, cookie, copied, response, slots, page>>

vars == <<env, SECRET, now, ticks, last, prev, lastVerify, appVars>>

\* no response is on its way to the browser
NoResponse == [op |-> "none"]

\* the request handlers that run side by side
Handlers == 1..MaxHandlers

\* ------------------------------------------------------- the client pages
\* JSON.stringify of a value whose properties may be objects themselves, as
\* NextResponse.json writes the body of a response
RECURSIVE DeepText(_), DeepMembers(_)
DeepMembers(o) ==
  IF o = <<>> THEN <<>>
  ELSE IF Head(o).v = Undefined THEN DeepMembers(Tail(o))
  ELSE LET rest == DeepMembers(Tail(o))
           one == <<Head(o).k, ":">> \o DeepText(Head(o).v)
       IN IF rest = <<>> THEN one ELSE one \o <<",">> \o rest

DeepText(v) ==
  IF IsObj(v) THEN <<"{">> \o DeepMembers(v.o) \o <<"}">> ELSE StringifyScalar(v)

\* the braces opened and not closed in s before position i
OpenBefore(s, i) ==
  Cardinality({j \in 1..(i - 1) : s[j] = "{"})
    - Cardinality({j \in 1..(i - 1) : s[j] = "}"})

\* the pieces of s between the commas that are outside all braces
RECURSIVE SplitOuter(_)
SplitOuter(s) ==
  LET commas == {i \in 1..Len(s) : s[i] = "," /\ OpenBefore(s, i) = 0}
  IN IF commas = {} THEN <<s>>
     ELSE LET i == CHOOSE j \in commas : \A k \in commas : j <= k
          IN <<SubSeq(s, 1, i - 1)>> \o SplitOuter(SubSeq(s, i + 1, Len(s)))

\* JSON.parse of a text whose members may be object texts
RECURSIVE DeepParse(_), DeepParseMembers(_, _)
DeepParseMembers(ms, acc) ==
  IF ms = <<>> THEN Obj(acc)
  ELSE LET m == Head(ms)
       IN IF Len(m) >= 3 /\ IsStringText(<<m[1]>>) /\ m[2] = ":"
          THEN LET v == DeepParse(SubSeq(m, 3, Len(m)))
               IN IF v = SyntaxError THEN SyntaxError
                  ELSE DeepParseMembers(Tail(ms), Put(acc, m[1], v))
          ELSE SyntaxError

DeepParse(s) ==
  IF Len(s) >= 2 /\ s[1] = "{" /\ s[Len(s)] = "}"
  THEN IF Len(s) = 2 THEN Obj(<<>>)
       ELSE DeepParseMembers(SplitOuter(SubSeq(s, 2, Len(s) - 1)), <<>>)
  ELSE ParseScalar(s)

\* the body of a response as it travels: the JSON text of a JSON response,
\* the page of an answer that is none
Wire(res) == IF res.body = NotJson THEN <<"<", "html", ">">> ELSE DeepText(res.body)

\* await resp.json(): the value, or the SyntaxError of a body that is no JSON
RespJson(res) ==
  LET data == DeepParse(Wire(res))
  IN IF data = SyntaxError THEN Throw("SyntaxError", "Unexpected token < in JSON")
     ELSE Return(data)

\* res.ok
ResOk(res) == res.status >= 200 /\ res.status <= 299

\* the forms: sign-in, sign-up, and the sign-up form that page.tsx carries;
\* the route each posts to, its message when the response names no error,
\* and whether it calls router.refresh() after router.push("/")
Forms ==
  ("signin" :> [endpoint |-> "login", fallback |-> "Sign in failed", refresh |-> TRUE])
    @@ ("signup" :> [endpoint |-> "register", fallback |-> "Sign up failed",
                     refresh |-> TRUE])
    @@ ("starter" :> [endpoint |-> "register", fallback |-> "Sign up failed",
                      refresh |-> FALSE])
FormViews == DOMAIN Forms

\* what users type into the forms
FormInputs ==
  [v \in FormViews |->
     IF v = "signin"
     THEN {LoginBody("a@b.com", "longpass1"), LoginBody("a@b.com", "otherpass")}
     ELSE {RegisterBody("Al", "a@b.com", "longpass1"),
           RegisterBody("Al", "a@b.com", "short")}]

\* the page a path leads to
ViewOf(path) == IF path = "/" THEN "home" ELSE "signin"

\* a page just mounted: useState(false), useState(null), nothing in flight
FreshPage(view) ==
  [view |-> view, loading |-> FALSE, error |-> Null, pc |-> "idle",
   pushed |-> Null, refreshed |-> FALSE, request |-> <<>>, resp |-> NoResponse]

\* what an intermediary answers in place of the server: an error page, or a
\* JSON body of its own
GatewayAnswers ==
  {[op |-> "gateway", status |-> 502, body |-> NotJson, setCookie |-> Undefined],
   [op |-> "gateway", status |-> 502,
    body |-> Obj(<<Prop("message", Str("Bad gateway"))>>), setCookie |-> Undefined]}

Init ==
  /\ env \in EnvChoices
  /\ SECRET = SecretOf(env)
  /\ now = StartMs
  /\ ticks = 0
  /\ last = NoCall
  /\ prev = NoCall
  /\ lastVerify = NoCall
  /\ users = {}
  /\ cookie = Undefined
  /\ copied = FALSE
  /\ response = NoResponse
  /\ slots = [h \in Handlers |-> NoCall]
  /\ page = FreshPage("signin")

\* the clock advances by d milliseconds
Tick(d) ==
  /\ lastVerify = NoCall
  /\ ticks < MaxTicks
  /\ ticks' = ticks + 1
  /\ now' = now + d
  /\ UNCHANGED <<env, SECRET, last, prev, lastVerify, appVars>>

\* a caller runs signSession(payload, opts); keep says whether the call
\* before it stays in view
SignSession(payload, opts, keep) ==
  /\ lastVerify = NoCall
  /\ last' = [t |-> "call", payload |-> payload, opts |-> opts, at |-> now,
              out |-> signSession(payload, opts, SECRET, now)]
  /\ prev' = IF keep THEN last ELSE NoCall
  /\ UNCHANGED <<env, SECRET, now, ticks, lastVerify, appVars>>

\* a caller runs verifySession(token)
VerifySession(token) ==
  /\ lastVerify = NoCall
  /\ lastVerify' = [t |-> "call", token |-> token, at |-> now,
                    out |-> verifySession(token, SECRET, now)]
  /\ UNCHANGED <<env, SECRET, now, ticks, last, prev, appVars>>

\* the caller of verifySession takes its result
TakeResult ==
  /\ lastVerify # NoCall
  /\ lastVerify' = NoCall
  /\ UNCHANGED <<env, SECRET, now, ticks, last, prev, appVars>>

\* the signSession calls in view that returned a token
Issued == {c \in {last, prev} : c.t = "call" /\ c.out.t = "return"}
IssuedTokens == {c.out.value : c \in Issued}

\* the segments of a token string
Segments(token) == Split(token, ".")

\* token with the symbol at position pos of its payload segment replaced by c
Tamper(token, pos, c) ==
  LET at == Len(Segments(token)[1]) + 1 + pos
  IN [i \in 1..Len(token) |-> IF i = at THEN c ELSE token[i]]

\* the first two segments of a token
Truncate(token) == Segments(token)[1] \o <<".">> \o Segments(token)[2]

\* verifySession on a token signSession returned
VerifyIssued == \E tok \in IssuedTokens : VerifySession(tok)

\* verifySession on an issued token with one payload symbol changed
VerifyTampered ==
  \E tok \in IssuedTokens :
    \E pos \in {1, Len(Segments(tok)[2]) - 1, Len(Segments(tok)[2])} :
      \E c \in {B64Code["9"], "."} :
        /\ Segments(tok)[2][pos] # c
        /\ VerifySession(Tamper(tok, pos, c))

\* verifySession on an issued token cut to two segments
VerifyTruncated == \E tok \in IssuedTokens : VerifySession(Truncate(tok))

\* verifySession on a string that is no token
VerifyPlain == \E s \in PlainStrings : VerifySession(s)

\* verifySession on a token another process issued at this time with its own
\* secret
VerifyForeign ==
  \E c \in {BasicClaims} :
    VerifySession(signSession(c, Undefined, ForeignSecret, now).value)

\* verifySession on a token signed with the process secret outside
\* signSession
VerifyCrafted ==
  \E hp \in CraftedChoices : VerifySession(JwsSign(hp[1], hp[2], SECRET))

Next ==
  \/ \E d \in Advances : Tick(d)
  \/ \E call \in Calls : SignSession(call[1], call[2], FALSE)
  \/ VerifyIssued
  \/ VerifyTampered
  \/ VerifyTruncated
  \/ VerifyPlain
  \/ VerifyForeign
  \/ VerifyCrafted
  \/ TakeResult

Spec == Init /\ [][Next]_vars

\* two signSession calls in view
NextPair ==
  \/ \E d \in Advances : Tick(d)
  \/ \E call \in PairCalls : SignSession(call[1], call[2], TRUE)
  \/ VerifyIssued
  \/ TakeResult

SpecPair == Init /\ [][NextPair]_vars

\* ---------------------------------------------------- routes and browser
\* the id the database gives the next user record
NextIds == UserIds \ {u.id : u \in users}

\* the response of a route, with the request body it answers
Answer(body, res) == [request |-> body] @@ res

\* a browser posts body to /api/auth/register
Register(body) ==
  /\ response = NoResponse
  /\ \E id \in (IF NextIds = {} THEN UserIds ELSE NextIds) :
       LET r == RegisterRoute(body, users, id, SECRET, now, NoFault)
       IN /\ users' = r.table
          /\ response' = Answer(body, r.res)
  /\ UNCHANGED <<page, env, SECRET, now, ticks, last, prev, lastVerify, cookie, copied, slots>>

\* a browser posts body to /api/auth/login
Login(body) ==
  /\ response = NoResponse
  /\ response' = Answer(body, LoginRoute(body, users, SECRET, now, NoFault))
  /\ UNCHANGED <<page, env, SECRET, now, ticks, last, prev, lastVerify, users, cookie,
                 copied, slots>>

\* (mutation) logging out gives the process a new secret
Logout_Rotates ==
  /\ response = NoResponse
  /\ response' = LogoutRoute(env)
  /\ SECRET' = ForeignSecret
  /\ UNCHANGED <<page, env, now, ticks, last, prev, lastVerify, users, cookie, copied, slots>>

\* a browser posts to /api/auth/logout
Logout ==
  /\ response = NoResponse
  /\ response' = LogoutRoute(env)
  /\ UNCHANGED <<page, env, SECRET, now, ticks, last, prev, lastVerify, users, cookie,
                 copied, slots>>

\* a browser requests the home page with the cookie it holds
Home ==
  /\ response = NoResponse
  /\ \E call \in {HomeCall(cookie, SECRET, now)} :
       /\ lastVerify' = call
       /\ response' = HomeView(call)
  /\ UNCHANGED <<page, env, SECRET, now, ticks, last, prev, users, cookie, copied, slots>>

\* the browser takes the response and does what its Set-Cookie header says
Receive ==
  /\ response # NoResponse
  /\ cookie' = CookieAfter(cookie, response.setCookie, now)
  /\ copied' = (copied /\ response.setCookie = Undefined)
  /\ response' = NoResponse
  /\ lastVerify' = NoCall
  /\ UNCHANGED <<page, env, SECRET, now, ticks, last, prev, users, slots>>

\* a client that copied its cookie takes the logout response and goes on
\* sending the copy
ReceiveKeeping ==
  /\ response.op = "logout"
  /\ cookie # Undefined
  /\ copied' = TRUE
  /\ response' = NoResponse
  /\ UNCHANGED <<page, env, SECRET, now, ticks, last, prev, lastVerify, users, cookie, slots>>

\* a client makes up the cookie it sends
MakeUp(value) ==
  /\ response = NoResponse
  /\ cookie # Text(value)
  /\ cookie' = Text(value)
  /\ copied' = FALSE
  /\ UNCHANGED <<page, env, SECRET, now, ticks, last, prev, lastVerify, users, response, slots>>

\* time passes between two requests
Wait(d) == response = NoResponse /\ Tick(d)

NextApp ==
  \/ \E body \in RegisterBodies : Register(body)
  \/ \E body \in LoginBodies : Login(body)
  \/ Logout
  \/ Home
  \/ Receive
  \/ ReceiveKeeping
  \/ \E value \in MadeUpCookies : MakeUp(value)
  \/ \E d \in RequestAdvances : Wait(d)

SpecApp == Init /\ [][NextApp]_vars

\* ------------------------------------------------------- request handlers
\* what a handler asks of lib/session
SignRequest(payload, opts) == [kind |-> "sign", payload |-> payload, opts |-> opts]
VerifyRequest(token) == [kind |-> "verify", token |-> token]

\* the tokens this process issued at start-up
EarlierTokens ==
  {r.value : r \in {r \in {signSession(BasicClaims, Undefined, SECRET, StartMs)} :
                      r.t = "return"}}

\* the requests that arrive
HandlerRequests ==
  {SignRequest(BasicClaims, Undefined), SignRequest(OtherClaims, Undefined)}
    \cup {VerifyRequest(tok) : tok \in EarlierTokens \cup {<<"not-a-token">>}}

\* clock advances while handlers run: eight days
HandlerAdvances == {EightDaysMs}

\* (mutation) the request is kept in a variable of the module that the
\* handlers share: a handler finds there the request of the first handler
\* that waits
RequestOf_Shared(h) ==
  slots[CHOOSE g \in Handlers :
          slots[g].t = "pending" /\ \A f \in 1..(g - 1) : slots[f].t # "pending"].req

\* the request handler h holds in its own local variables
RequestOf(h) == slots[h].req

\* the call handler h makes, at the time it makes it
CallOf(h) ==
  LET req == RequestOf(h)
  IN IF req.kind = "sign" THEN signSession(req.payload, req.opts, SECRET, now)
     ELSE verifySession(req.token, SECRET, now)

\* a request reaches handler h, which awaits its turn
Arrive(h, req) ==
  /\ slots[h] = NoCall
  /\ slots' = [slots EXCEPT ![h] = [t |-> "pending", req |-> req]]
  /\ UNCHANGED <<page, env, SECRET, now, ticks, last, prev, lastVerify, users, cookie,
                 copied, response>>

\* (mutation) the call leaves a session record in the user table
Run_StoresSession(h) ==
  /\ slots[h].t = "pending"
  /\ slots' = [slots EXCEPT ![h] = [t |-> "done", req |-> slots[h].req,
                                    at |-> now, out |-> CallOf(h)]]
  /\ users' = users \cup {[id |-> "u1", name |-> "", email |-> "", password |-> Null]}
  /\ UNCHANGED <<page, env, SECRET, now, ticks, last, prev, lastVerify, cookie, copied,
                 response>>

\* handler h makes its call of signSession or verifySession, start to end
Run(h) ==
  /\ slots[h].t = "pending"
  /\ slots' = [slots EXCEPT ![h] = [t |-> "done", req |-> slots[h].req,
                                    at |-> now, out |-> CallOf(h)]]
  /\ UNCHANGED <<page, env, SECRET, now, ticks, last, prev, lastVerify, users, cookie,
                 copied, response>>

\* handler h has answered its request
Finish(h) ==
  /\ slots[h].t = "done"
  /\ slots' = [slots EXCEPT ![h] = NoCall]
  /\ UNCHANGED <<page, env, SECRET, now, ticks, last, prev, lastVerify, users, cookie,
                 copied, response>>

NextHandlers ==
  \/ \E h \in Handlers : \E req \in HandlerRequests : Arrive(h, req)
  \/ \E h \in Handlers : Run(h)
  \/ \E h \in Handlers : Finish(h)
  \/ \E d \in HandlerAdvances : Tick(d)

SpecHandlers == Init /\ [][NextHandlers]_vars

\* ------------------------------------- one token, verified again and again
\* the claims of the tokens that are watched: those of a route, and those
\* with an nbf a day after start-up
LaterClaims == {BasicClaims, Append(BasicClaims, Prop("nbf", Num(90000)))}

\* the tokens watched: issued by this process at start-up, and a string that
\* is no token
WatchedTokens ==
  {r.value : r \in {r \in {signSession(c, Undefined, SECRET, StartMs) : c \in LaterClaims} :
                      r.t = "return"}}
    \cup {<<"not-a-token">>}

\* clock advances between two verifications
LaterAdvances == {WeekLessHalfSecondMs, EightDaysMs}

\* handler h, the next in turn, verifies token tok: verifySession(tok) at the
\* present time, with its outcome
Watch(h, tok) ==
  /\ slots[h] = NoCall
  /\ \A g \in 1..(h - 1) : slots[g] # NoCall
  /\ slots' = [slots EXCEPT ![h] = [t |-> "done", req |-> VerifyRequest(tok),
                                    at |-> now,
                                    out |-> verifySession(tok, SECRET, now)]]
  /\ UNCHANGED <<page, env, SECRET, now, ticks, last, prev, lastVerify, users, cookie,
                 copied, response>>

NextLater ==
  \/ \E h \in Handlers : \E tok \in WatchedTokens : Watch(h, tok)
  \/ \E d \in LaterAdvances : Tick(d)

SpecLater == Init /\ [][NextLater]_vars

\* --------------------------------------------- routes whose awaits may fail
\* the emails the other sign-up integration creates records for
EnrolEmails == {"c@d.com"}

\* the better-auth integration, which shares the database, creates the record
\* of a user: one without password
Enrol(email) ==
  /\ response = NoResponse
  /\ ~EmailIndexed(users, email)
  /\ \E id \in NextIds :
       users' = users \cup {[id |-> id, name |-> "Al", email |-> email,
                              password |-> Null]}
  /\ UNCHANGED <<page, env, SECRET, now, ticks, last, prev, lastVerify, cookie, copied,
                 response, slots>>

\* the response of a route, with the request it answers and what failed
AnswerUnder(body, fault, res) == [fault |-> fault] @@ Answer(body, res)

\* a browser posts body to /api/auth/register while fault holds
RegisterUnder(body, fault) ==
  /\ response = NoResponse
  /\ \E id \in (IF NextIds = {} THEN UserIds ELSE NextIds) :
       \E r \in {RegisterRoute(body, users, id, SECRET, now, fault)} :
         /\ users' = r.table
         /\ response' = AnswerUnder(body, fault, r.res)
  /\ UNCHANGED <<page, env, SECRET, now, ticks, last, prev, lastVerify, cookie, copied, slots>>

\* a browser posts body to /api/auth/login while fault holds
LoginUnder(body, fault) ==
  /\ response = NoResponse
  /\ response' = AnswerUnder(body, fault, LoginRoute(body, users, SECRET, now, fault))
  /\ UNCHANGED <<page, env, SECRET, now, ticks, last, prev, lastVerify, users, cookie,
                 copied, slots>>

NextRoutes ==
  \/ \E email \in EnrolEmails : Enrol(email)
  \/ \E body \in RegisterBodies : \E fault \in RegisterFaults \cup {NoFault} :
       RegisterUnder(body, fault)
  \/ \E body \in LoginBodies : \E fault \in LoginFaults \cup {NoFault} :
       LoginUnder(body, fault)
  \/ Receive

SpecRoutes == Init /\ [][NextRoutes]_vars

\* ------------------------------------- register, from one await to the next
\* the register requests that arrive side by side
RaceBodies ==
  {RegisterBody("Al", "a@b.com", "longpass1"), RegisterBody("Al", "a@b.com", "otherpass"),
   RegisterBody("Al", "c@d.com", "otherpass")}

\* a handler has built the response to its request
Answered(body, res) == [t |-> "done", body |-> body, res |-> res]

\* handler h takes a register request: await req.json(), schema.parse
Accept(h, body) ==
  /\ slots[h] = NoCall
  /\ LET json == ReqJson(body)
         parsed == ZodParse(RegisterSchema, json.value)
     IN slots' = [slots EXCEPT ![h] =
          IF json.t = "throw" THEN Answered(body, CaughtResponse("register", json))
          ELSE IF parsed.t = "throw"
          THEN Answered(body, CaughtResponse("register", parsed))
          ELSE [t |-> "lookup", body |-> body, parsed |-> parsed.value.o]]
  /\ UNCHANGED <<page, env, SECRET, now, ticks, last, prev, lastVerify, users, cookie,
                 copied, response>>

\* handler h gets the answer of await prisma.user.findUnique and returns
\* early when it is a record
Lookup(h) ==
  /\ slots[h].t = "lookup"
  /\ LET existing == FindUnique(users, Get(slots[h].parsed, "email").s)
     IN slots' = [slots EXCEPT ![h] =
          IF existing # Null
          THEN Answered(slots[h].body, Refusal("register", "Email already registered"))
          ELSE [t |-> "hash", body |-> slots[h].body, parsed |-> slots[h].parsed]]
  /\ UNCHANGED <<page, env, SECRET, now, ticks, last, prev, lastVerify, users, cookie,
                 copied, response>>

\* handler h gets the digest of await bcrypt.hash
Hash(h) ==
  /\ slots[h].t = "hash"
  /\ slots' = [slots EXCEPT ![h] =
       [t |-> "create", body |-> slots[h].body, parsed |-> slots[h].parsed,
        hashed |-> BcryptHash(Get(slots[h].parsed, "password").s, 10)]]
  /\ UNCHANGED <<page, env, SECRET, now, ticks, last, prev, lastVerify, users, cookie,
                 copied, response>>

\* handler h gets the answer of await prisma.user.create, signs the session
\* and builds its response
Create(h) ==
  /\ slots[h].t = "create"
  /\ \E id \in (IF NextIds = {} THEN UserIds ELSE NextIds) :
       \E created \in {UserCreate(users, [name |-> Get(slots[h].parsed, "name").s,
                                          email |-> Get(slots[h].parsed, "email").s,
                                          password |-> slots[h].hashed], id)} :
         IF created.t = "throw"
         THEN /\ users' = users
              /\ slots' = [slots EXCEPT ![h] =
                   Answered(slots[h].body, CaughtResponse("register", created))]
         ELSE \E token \in {signSession(SessionClaims(created.value), Undefined,
                                        SECRET, now)} :
                /\ users' = users \cup {created.value}
                /\ slots' = [slots EXCEPT ![h] =
                     Answered(slots[h].body,
                              IF token.t = "throw"
                              THEN CaughtResponse("register", token)
                              ELSE Welcome("register", created.value, token.value))]
  /\ UNCHANGED <<page, env, SECRET, now, ticks, last, prev, lastVerify, cookie, copied,
                 response>>

NextRace ==
  \/ \E h \in Handlers : \E body \in RaceBodies : Accept(h, body)
  \/ \E h \in Handlers : Lookup(h)
  \/ \E h \in Handlers : Hash(h)
  \/ \E h \in Handlers : Create(h)
  \/ \E h \in Handlers : Finish(h)

SpecRace == Init /\ [][NextRace]_vars

\* ------------------------------------------------ the forms and the button
\* the user opens a page
Open(view) ==
  /\ page.pc = "idle"
  /\ page.view # view
  /\ response = NoResponse
  /\ page' = FreshPage(view)
  /\ UNCHANGED <<env, SECRET, now, ticks, last, prev, lastVerify, users, cookie,
                 copied, response, slots>>

\* onSubmit, up to the fetch: setLoading(true), setError(null), and the
\* request goes out with JSON.stringify of what was typed
Submit(typed) ==
  /\ page.view \in FormViews
  /\ typed \in FormInputs[page.view]
  /\ page.pc = "idle"
  /\ ~page.loading
  /\ page.pushed = Null
  /\ page' = [page EXCEPT !.loading = TRUE, !.error = Null, !.pc = "fetch",
                          !.request = JSONStringify(typed)]
  /\ UNCHANGED <<env, SECRET, now, ticks, last, prev, lastVerify, users, cookie,
                 copied, response, slots>>

\* handleLogout, up to the fetch
ClickLogout ==
  /\ page.view = "home"
  /\ page.pc = "idle"
  /\ page.pushed = Null
  /\ \E call \in {HomeCall(cookie, SECRET, now)} : HomeView(call).view = "signedIn"
  /\ page' = [page EXCEPT !.pc = "fetch", !.request = <<>>]
  /\ UNCHANGED <<env, SECRET, now, ticks, last, prev, lastVerify, users, cookie,
                 copied, response, slots>>

\* the server runs the route the request in flight was posted to
Serve ==
  /\ page.pc = "fetch"
  /\ response = NoResponse
  /\ IF page.view = "home"
     THEN /\ response' = LogoutRoute(env)
          /\ users' = users
     ELSE IF Forms[page.view].endpoint = "login"
     THEN /\ response' = Answer(JSONParse(page.request),
                                LoginRoute(JSONParse(page.request), users, SECRET, now,
                                           NoFault))
          /\ users' = users
     ELSE \E id \in (IF NextIds = {} THEN UserIds ELSE NextIds) :
            \E r \in {RegisterRoute(JSONParse(page.request), users, id, SECRET, now,
                                    NoFault)} :
              /\ response' = Answer(JSONParse(page.request), r.res)
              /\ users' = r.table
  /\ UNCHANGED <<env, SECRET, now, ticks, last, prev, lastVerify, cookie, copied,
                 slots, page>>

\* an intermediary answers the request in flight in place of the server
Gateway(answer) ==
  /\ page.pc = "fetch"
  /\ response = NoResponse
  /\ response' = answer
  /\ UNCHANGED <<env, SECRET, now, ticks, last, prev, lastVerify, users, cookie,
                 copied, slots, page>>

\* the response fetch resolves with: what await resp.json() will settle with
\* is fixed by the body that came
Received(res) == [json |-> RespJson(res)] @@ res

\* (mutation) the button goes to the sign-in page whatever the response
FetchResolves_AnyStatus ==
  /\ page.pc = "fetch"
  /\ response # NoResponse
  /\ cookie' = CookieAfter(cookie, response.setCookie, now)
  /\ response' = NoResponse
  /\ page' = IF page.view = "home"
             THEN [page EXCEPT !.pc = "idle", !.pushed = Str("/signin"),
                               !.refreshed = TRUE]
             ELSE [page EXCEPT !.pc = "json", !.resp = Received(response)]
  /\ UNCHANGED <<env, SECRET, now, ticks, last, prev, lastVerify, users, copied, slots>>

\* await fetch(...) resolves with the response: the browser does what its
\* Set-Cookie header says; a form goes on to await resp.json() (the body is
\* read and parsed), the button calls router.push("/signin") and
\* router.refresh() when res.ok
FetchResolves ==
  /\ page.pc = "fetch"
  /\ response # NoResponse
  /\ cookie' = CookieAfter(cookie, response.setCookie, now)
  /\ response' = NoResponse
  /\ page' = IF page.view = "home"
             THEN IF ResOk(response)
                  THEN [page EXCEPT !.pc = "idle", !.pushed = Str("/signin"),
                                    !.refreshed = TRUE]
                  ELSE [page EXCEPT !.pc = "idle"]
             ELSE [page EXCEPT !.pc = "json", !.resp = Received(response)]
  /\ UNCHANGED <<env, SECRET, now, ticks, last, prev, lastVerify, users, copied, slots>>

\* await fetch(...) rejects (the network fails; a response on its way is
\* lost): a form sets the error in catch and resets loading in finally, the
\* button logs the error
FetchRejects ==
  /\ page.pc = "fetch"
  /\ response' = NoResponse
  /\ page' = IF page.view = "home" THEN [page EXCEPT !.pc = "idle"]
             ELSE [page EXCEPT !.pc = "idle", !.error = Str("Failed to fetch"),
                               !.loading = FALSE]
  /\ UNCHANGED <<env, SECRET, now, ticks, last, prev, lastVerify, users, cookie,
                 copied, slots>>

\* (mutation) loading is reset at the end of the try block, not in finally
JsonSettles_NoFinally ==
  /\ page.pc = "json"
  /\ \E r \in {page.resp.json} :
       page' = IF r.t = "throw"
               THEN [page EXCEPT !.pc = "idle", !.resp = NoResponse,
                                 !.error = Str(r.message)]
               ELSE IF Truthy(Member(r.value, "success"))
               THEN [page EXCEPT !.pc = "idle", !.resp = NoResponse, !.loading = FALSE,
                                 !.pushed = Str("/"),
                                 !.refreshed = Forms[page.view].refresh]
               ELSE [page EXCEPT !.pc = "idle", !.resp = NoResponse, !.loading = FALSE,
                                 !.error = Coalesce(Member(r.value, "error"),
                                                    Str(Forms[page.view].fallback))]
  /\ UNCHANGED <<env, SECRET, now, ticks, last, prev, lastVerify, users, cookie,
                 copied, response, slots>>

\* await resp.json() settles and onSubmit runs to its end: router.push("/")
\* when data?.success, setError(data?.error ?? fallback) otherwise,
\* setError(err?.message) in catch, setLoading(false) in finally
JsonSettles ==
  /\ page.pc = "json"
  /\ \E r \in {page.resp.json} :
       page' = IF r.t = "throw"
               THEN [page EXCEPT !.pc = "idle", !.resp = NoResponse, !.loading = FALSE,
                                 !.error = Str(r.message)]
               ELSE IF Truthy(Member(r.value, "success"))
               THEN [page EXCEPT !.pc = "idle", !.resp = NoResponse, !.loading = FALSE,
                                 !.pushed = Str("/"),
                                 !.refreshed = Forms[page.view].refresh]
               ELSE [page EXCEPT !.pc = "idle", !.resp = NoResponse, !.loading = FALSE,
                                 !.error = Coalesce(Member(r.value, "error"),
                                                    Str(Forms[page.view].fallback))]
  /\ UNCHANGED <<env, SECRET, now, ticks, last, prev, lastVerify, users, cookie,
                 copied, response, slots>>

\* the router shows the page that was pushed
Navigate ==
  /\ page.pc = "idle"
  /\ page.pushed # Null
  /\ page' = FreshPage(ViewOf(page.pushed.s))
  /\ UNCHANGED <<env, SECRET, now, ticks, last, prev, lastVerify, users, cookie,
                 copied, response, slots>>

NextClient ==
  \/ \E view \in FormViews \cup {"home"} : Open(view)
  \/ \E typed \in UNION {FormInputs[view] : view \in FormViews} : Submit(typed)
  \/ ClickLogout
  \/ Serve
  \/ \E answer \in GatewayAnswers : Gateway(answer)
  \/ FetchResolves
  \/ FetchRejects
  \/ JsonSettles
  \/ Navigate

SpecClient == Init /\ [][NextClient]_vars

\* a fetch does not stay pending for ever (unless it resolves, it fails in
\* the end), and the code after an await runs once the promise it waits for
\* has settled
SpecClientFair == SpecClient /\ WF_vars(FetchRejects) /\ WF_vars(JsonSettles)

TypeOK ==
  /\ env \in EnvChoices
  /\ SECRET \in Secrets
  /\ now >= StartMs
  /\ ticks \in 0..MaxTicks

\* ===================================================== what a token says
\* The notions the claims are stated in, read off the token string itself.

\* the verifySession call just made returned claims
Accepted == lastVerify.t = "call" /\ lastVerify.out = Return(lastVerify.out.value)
              /\ lastVerify.out.value # Null
\* the verifySession call just made returned null
Rejected == lastVerify.t = "call" /\ lastVerify.out = Return(Null)

\* the JSON value in segment n of a three-segment string
SegmentValue(token, n) == JSONParse(Base64urlDecode(Segments(token)[n]))

\* token has three segments and its third is the MAC, under key and the HMAC
\* algorithm its header names, of its first two
SignedWith(token, key) ==
  /\ Len(Segments(token)) = 3
  /\ LET alg == Member(SegmentValue(token, 1), "alg")
     IN /\ IsStr(alg) /\ alg.s \in HS_ALGS
        /\ Segments(token)[3] =
             Hmac(alg.s, key, Segments(token)[1] \o <<".">> \o Segments(token)[2])

\* the exp and nbf a token embeds, undefined when it embeds none
EmbeddedExp(token) == Member(SegmentValue(token, 2), "exp")
EmbeddedNbf(token) == Member(SegmentValue(token, 2), "nbf")

\* the whole second a millisecond time lies in
SecondOf(ms) == ms \div 1000

\* time ms is before the expiry token embeds
BeforeExpiry(token, ms) ==
  IsNum(EmbeddedExp(token)) /\ SecondOf(ms) < EmbeddedExp(token).n

\* token is three base64url segments, its header a JSON object and, for typ
\* JWT, its payload a JSON text other than null
Decodable(token) ==
  /\ Len(Segments(token)) = 3
  /\ IsValidJws(Segments(token))
  /\ IsObj(SegmentValue(token, 1))
  /\ Member(SegmentValue(token, 1), "typ") = Str("JWT")
       => SegmentValue(token, 2) \notin {SyntaxError, Null}

\* ---------------------------------------------------------------------- C1
\* C1 as stated: verifySession(t) at time now returns claims if and only if
\* t's signature matches its payload under the process secret and now is
\* before the expiry embedded in t.
C1_AsStated ==
  lastVerify.t = "call" =>
    (Accepted <=> /\ SignedWith(lastVerify.token, SECRET)
                  /\ BeforeExpiry(lastVerify.token, lastVerify.at))

\* C1 amended: verifySession(t) at time now returns claims if and only if
\* the process secret is not empty, t decodes (three base64url segments, a
\* JSON object as header and, for typ JWT, a JSON payload other than null),
\* t's signature matches under the process secret and the HMAC algorithm
\* its header names, the exp t embeds (if any) is a number with now strictly
\* before it, and the nbf t embeds (if any) is a number not after now.
C1_ValidIff ==
  lastVerify.t = "call" =>
    (Accepted <=>
       /\ SECRET # ""
       /\ Decodable(lastVerify.token)
       /\ SignedWith(lastVerify.token, SECRET)
       /\ EmbeddedExp(lastVerify.token) # Undefined
            => BeforeExpiry(lastVerify.token, lastVerify.at)
       /\ EmbeddedNbf(lastVerify.token) # Undefined
            => /\ IsNum(EmbeddedNbf(lastVerify.token))
               /\ EmbeddedNbf(lastVerify.token).n <= SecondOf(lastVerify.at))

\* a correctly signed, unexpired token was refused because its nbf is ahead
C1_Witness ==
  /\ Rejected
  /\ SignedWith(lastVerify.token, SECRET)
  /\ BeforeExpiry(lastVerify.token, lastVerify.at)
  /\ SECRET # ""
  /\ IsNum(EmbeddedNbf(lastVerify.token))
  /\ EmbeddedNbf(lastVerify.token).n > SecondOf(lastVerify.at)

\* ---------------------------------------------------------------------- C2
\* the verifySession call just made was given the token the last signSession
\* call returned
VerifiedLast ==
  /\ lastVerify.t = "call" /\ last.t = "call" /\ last.out.t = "return"
  /\ lastVerify.token = last.out.value

RegisteredKeys == {"iat", "nbf", "exp"}

\* C2 as stated: verifySession(signSession(C)) before the token's expiry
\* returns claims equal to C.
C2_AsStated ==
  (VerifiedLast /\ last.opts = Undefined
     /\ BeforeExpiry(lastVerify.token, lastVerify.at))
  => /\ Accepted
     /\ IsObj(lastVerify.out.value)
     /\ AsMap(lastVerify.out.value.o) = AsMap(last.payload)

\* C2 amended: for every claims mapping C without the keys iat, nbf and exp,
\* verifySession(signSession(C)) before the token's expiry returns C
\* extended by iat and exp: every entry of C unchanged, and no other key.
C2_RoundTrip ==
  (VerifiedLast /\ last.opts = Undefined
     /\ Keys(last.payload) \cap RegisteredKeys = {}
     /\ BeforeExpiry(lastVerify.token, lastVerify.at))
  => /\ Accepted
     /\ IsObj(lastVerify.out.value)
     /\ Keys(lastVerify.out.value.o) = Keys(last.payload) \cup {"iat", "exp"}
     /\ \A k \in Keys(last.payload) :
          Get(lastVerify.out.value.o, k) = Get(last.payload, k)

\* the token for {userId, email} came back with both entries, one second
\* after it was issued
C2_Witness ==
  /\ VerifiedLast /\ last.opts = Undefined /\ last.payload = BasicClaims
  /\ lastVerify.at = last.at + 1000
  /\ Accepted
  /\ Get(lastVerify.out.value.o, "email") = Str("a@b.com")

\* ---------------------------------------------------------------------- C3
\* C3: for every input string verifySession returns claims or null; it never
\* throws.
C3_NeverThrows ==
  lastVerify.t = "call" =>
    /\ lastVerify.out.t = "return"
    /\ lastVerify.out.value = Null \/ IsObj(lastVerify.out.value)

\* jwt.verify threw an error that is not one of the library's own (the
\* payload of a token is no JSON) and verifySession returned null
C3_Witness ==
  /\ Rejected
  /\ JwtVerify(lastVerify.token, SECRET, lastVerify.at).t = "throw"
  /\ JwtVerify(lastVerify.token, SECRET, lastVerify.at).name = "SyntaxError"

\* ---------------------------------------------------------------------- C4
\* the exp a token embeds is in the past
ExpiryPassed(token, ms) ==
  /\ Len(Segments(token)) = 3
  /\ IsNum(EmbeddedExp(token)) /\ EmbeddedExp(token).n < SecondOf(ms)

\* C4: verifySession returns invalid for the empty string, for a string of
\* fewer than three segments, for a token signed with a secret that is not
\* the process secret, and for a token whose expiry is in the past.
C4_InvalidInputs ==
  (/\ lastVerify.t = "call"
   /\ \/ lastVerify.token = <<>>
      \/ Len(Segments(lastVerify.token)) < 3
      \/ \E k \in Secrets \ {SECRET} : SignedWith(lastVerify.token, k)
      \/ ExpiryPassed(lastVerify.token, lastVerify.at))
  => Rejected

\* a token signed with another secret, not expired, was refused
C4_Witness ==
  /\ Rejected
  /\ SECRET # ""
  /\ SignedWith(lastVerify.token, ForeignSecret)
  /\ BeforeExpiry(lastVerify.token, lastVerify.at)

\* ---------------------------------------------------------------------- C5
\* symbols a payload symbol is changed to: codes of JSON lexemes, the
\* segment separator, symbols outside base64url and symbols that are the
\* code of no lexeme
TamperSyms ==
  {B64Code["9"], B64Code["0"], B64Code["}"], B64Code[","], B64Code["u2"],
   B64Code["exp"], ".", "!", "k1"}

\* C5: for a token signSession produced and verifySession accepts, changing
\* any one symbol of the payload segment, the signature left as it is, gives
\* a string verifySession refuses.
C5_TamperRefused ==
  (VerifiedLast /\ Accepted) =>
    \A pos \in 1..Len(Segments(last.out.value)[2]) :
      \A c \in TamperSyms \ {Segments(last.out.value)[2][pos]} :
        verifySession(Tamper(last.out.value, pos, c), SECRET, now) = Return(Null)

\* a token that verifies at this time was refused with its last payload
\* symbol but one (a digit of exp) changed to another digit
C5_Witness ==
  /\ Rejected /\ last.t = "call" /\ last.out.t = "return"
  /\ verifySession(last.out.value, SECRET, now) # Return(Null)
  /\ LET pos == Len(Segments(last.out.value)[2]) - 1
     IN /\ Segments(last.out.value)[2][pos] # B64Code["9"]
        /\ lastVerify.token = Tamper(last.out.value, pos, B64Code["9"])

\* ---------------------------------------------------------------------- C6
\* seven days in seconds
SevenDays == 7 * 24 * 60 * 60

\* C6 as stated: a token issued at T with default options is valid at every
\* t with T <= t < expiry and invalid at every t >= expiry.
C6_AsStated ==
  (VerifiedLast /\ last.opts = Undefined) =>
    (Accepted <=> BeforeExpiry(lastVerify.token, lastVerify.at))

\* C6 amended: a token issued at T with default options for claims without
\* an nbf is valid at every t with T <= t < expiry and invalid at every
\* t >= expiry; for claims without an iat either, the expiry is 604800
\* seconds after the whole second of T (valid at T+1s, invalid at the expiry
\* instant and at T+8 days).
C6_StrictExpiry ==
  (VerifiedLast /\ last.opts = Undefined /\ "nbf" \notin Keys(last.payload)) =>
    /\ Accepted <=> BeforeExpiry(lastVerify.token, lastVerify.at)
    /\ "iat" \notin Keys(last.payload) =>
         /\ EmbeddedExp(lastVerify.token) = Num(SecondOf(last.at) + SevenDays)
         /\ lastVerify.at = last.at + 1000 => Accepted
         /\ lastVerify.at - last.at >= SevenDays * 1000 => Rejected

\* a token was refused at the very instant it expires
C6_Witness ==
  /\ VerifiedLast /\ last.opts = Undefined /\ last.payload = BasicClaims
  /\ lastVerify.at - last.at = SevenDays * 1000
  /\ Rejected

\* ---------------------------------------------------------------------- C7
EmbeddedIat(token) == Member(SegmentValue(token, 2), "iat")

\* exp - iat of the token a signSession call returned
Validity(call) == EmbeddedExp(call.out.value).n - EmbeddedIat(call.out.value).n

\* C7: without opts the expiry is exactly 604800 seconds after the issued-at
\* timestamp; an expiresIn in opts replaces the default for that call only.
C7_DefaultAndOverride ==
  \A call \in Issued :
    /\ call.opts = Undefined => Validity(call) = SevenDays
    /\ (call.opts # Undefined /\ IsNum(Get(call.opts.o, "expiresIn")))
         => Validity(call) = Get(call.opts.o, "expiresIn").n

\* a call with expiresIn 60 was followed by a call without opts
C7_Witness ==
  /\ prev.t = "call" /\ prev.out.t = "return" /\ prev.opts # Undefined
  /\ Validity(prev) = 60
  /\ last.t = "call" /\ last.out.t = "return" /\ last.opts = Undefined
  /\ Validity(last) = SevenDays

\* ---------------------------------------------------------------------- C8
BothIssued ==
  /\ prev.t = "call" /\ prev.out.t = "return"
  /\ last.t = "call" /\ last.out.t = "return"

\* C8 as stated: two tokens issued for the same claims at two different
\* times are different strings.
C8_AsStated ==
  (BothIssued /\ prev.payload = last.payload /\ prev.at # last.at)
    => prev.out.value # last.out.value

\* C8 amended: two tokens issued for the same claims, claims that carry no
\* iat and no nbf of their own, at times in two different whole seconds are
\* different strings, and each is accepted exactly until its own expiry.
C8_DistinctAndIndependent ==
  (BothIssued /\ prev.payload = last.payload
     /\ Keys(last.payload) \cap {"iat", "nbf"} = {}
     /\ SecondOf(prev.at) # SecondOf(last.at))
  => /\ prev.out.value # last.out.value
     /\ \A call \in {prev, last} :
          (verifySession(call.out.value, SECRET, now) # Return(Null))
            <=> BeforeExpiry(call.out.value, now)

\* the later token was accepted after the earlier one for the same claims
\* had expired
C8_Witness ==
  /\ BothIssued /\ prev.payload = last.payload /\ prev.out.value # last.out.value
  /\ Accepted /\ lastVerify.token = last.out.value
  /\ ~BeforeExpiry(prev.out.value, now)
  /\ verifySession(prev.out.value, SECRET, now) = Return(Null)

\* ---------------------------------------------------------------------- C9
\* the three ways a string fails
Malformed(token) == Len(Segments(token)) # 3
Expired(token, ms) ==
  /\ SignedWith(token, SECRET)
  /\ IsNum(EmbeddedExp(token)) /\ EmbeddedExp(token).n <= SecondOf(ms)
Mismatched(token) ==
  /\ Len(Segments(token)) = 3
  /\ Segments(token)[3] # <<>>
  /\ ~SignedWith(token, SECRET)

\* C9: a malformed string, an expired token and a token whose signature does
\* not match all get the same result, null, with no reason in it.
C9_OneFailure ==
  (/\ lastVerify.t = "call"
   /\ \/ Malformed(lastVerify.token)
      \/ Expired(lastVerify.token, lastVerify.at)
      \/ Mismatched(lastVerify.token))
  => /\ lastVerify.out = Return(Null)
     /\ lastVerify.out = verifySession(<<"not-a-token">>, SECRET, now)

\* an expired token got the result a malformed string and a token signed
\* with another secret get
C9_Witness ==
  /\ Rejected /\ SECRET # ""
  /\ Expired(lastVerify.token, lastVerify.at)
  /\ lastVerify.out = verifySession(<<"not-a-token">>, SECRET, now)
  /\ lastVerify.out =
       verifySession(signSession(BasicClaims, Undefined, ForeignSecret, now).value,
                     SECRET, now)

\* --------------------------------------------------------------------- C10
\* C10 as stated: with a valid secret signSession returns a token for every
\* serializable claims mapping, whatever its keys.
C10_AsStated ==
  (/\ last.t = "call" /\ last.opts = Undefined /\ SECRET # ""
   /\ Serializable(Obj(last.payload)))
  => last.out.t = "return"

\* C10 amended: with a valid secret signSession returns a token for every
\* serializable claims mapping that has no exp key and whose iat and nbf, if present, are
\* numbers.
C10_Succeeds ==
  (/\ last.t = "call" /\ last.opts = Undefined /\ SECRET # ""
   /\ Serializable(Obj(last.payload))
   /\ "exp" \notin Keys(last.payload)
   /\ \A k \in {"iat", "nbf"} :
        k \in Keys(last.payload) => IsNum(Get(last.payload, k)))
  => /\ last.out.t = "return"
     /\ Len(Segments(last.out.value)) = 3

\* signSession returned a token for claims with a numeric iat of their own
C10_Witness ==
  /\ last.t = "call" /\ last.opts = Undefined /\ SECRET # ""
  /\ Get(last.payload, "iat") = Num(400)
  /\ last.out.t = "return"
  /\ EmbeddedIat(last.out.value) = Num(400)

\* --------------------------------------------------------------------- C11
\* the claims of the last signSession call are malformed: a registered claim
\* that is no number, or an exp next to the expiresIn signSession passes
MalformedClaims(payload, opts) ==
  \/ \E k \in RegisteredKeys \cap Keys(payload) : ~IsNum(Get(payload, k))
  \/ "exp" \in Keys(payload) /\ Member(opts, "expiresIn") # Undefined
  \/ "exp" \in Keys(payload) /\ "expiresIn" \notin Keys(Coalesce(opts, Obj(<<>>)).o)
  \/ "nbf" \in Keys(payload) /\ Member(opts, "notBefore") # Undefined

\* the opts of the last signSession call are refused: expiresIn given as
\* undefined
RefusedOptions(opts) ==
  IsObj(opts) /\ \E i \in 1..Len(opts.o) : opts.o[i].v = Undefined

\* C11: when issuance fails (malformed or unserializable claims, refused
\* options, an empty secret) signSession returns no token and swallows
\* nothing: the caller gets the error jwt.sign threw, and it fails in no
\* other case.
C11_FailurePropagates ==
  last.t = "call"
  => /\ (\/ MalformedClaims(last.payload, last.opts)
         \/ ~Serializable(Obj(last.payload))
         \/ RefusedOptions(last.opts)
         \/ SECRET = "")
        <=> last.out.t = "throw"
     /\ last.out.t = "throw"
        => /\ last.out.name \in {"Error", "TypeError"}
           /\ last.out = Throw(last.out.name, last.out.message)
     /\ ~Serializable(Obj(last.payload)) /\ SECRET # ""
        => last.out.t = "throw" /\ last.out.name = "TypeError"

\* signSession was given claims with a BigInt and the caller got the
\* TypeError of the serialization step
C11_Witness ==
  /\ last.t = "call" /\ SECRET # ""
  /\ ~Serializable(Obj(last.payload))
  /\ last.out.t = "throw"
  /\ last.out.name = "TypeError"

\* --------------------------------------------------------------------- C14
\* the secret one environment variable alone would select
OneVariable(e) ==
  IF e.BETTER_AUTH_SECRET # Undefined THEN e.BETTER_AUTH_SECRET.s ELSE "dev-secret"

\* the secret the two environment variables select, BETTER_AUTH_SECRET first
TwoVariables(e) ==
  IF e.BETTER_AUTH_SECRET # Undefined THEN e.BETTER_AUTH_SECRET.s
  ELSE IF e.SESSION_SECRET # Undefined THEN e.SESSION_SECRET.s
  ELSE "dev-secret"

\* every token signSession returned is signed with key, and every token
\* verifySession accepted is
UsedByBoth(key) ==
  /\ \A tok \in IssuedTokens : SignedWith(tok, key)
  /\ Accepted => SignedWith(lastVerify.token, key)

\* C14 as stated: one environment variable supplies the secret, "dev-secret"
\* when it is absent, and signSession and verifySession both use that value.
C14_AsStated ==
  /\ SECRET = OneVariable(env)
  /\ UsedByBoth(OneVariable(env))

\* C14 amended: BETTER_AUTH_SECRET supplies the secret when it is set, to the
\* empty string included; when it is absent SESSION_SECRET does; "dev-secret"
\* is the secret only when both are absent; signSession and verifySession
\* both use the value chosen.
C14_SecretSelection ==
  /\ SECRET = TwoVariables(env)
  /\ UsedByBoth(TwoVariables(env))

\* with BETTER_AUTH_SECRET absent and SESSION_SECRET set, a token signed with
\* the value of SESSION_SECRET was issued and accepted
C14_Witness ==
  /\ env.BETTER_AUTH_SECRET = Undefined /\ env.SESSION_SECRET = Str("k2")
  /\ VerifiedLast /\ Accepted
  /\ SignedWith(lastVerify.token, "k2")
  /\ ~SignedWith(lastVerify.token, "dev-secret")

\* ======================================================= what a response says
\* the response in view answers a login or register request
FromAuthRoute(res) == res.op \in {"login", "register"}

\* the response carries a Set-Cookie header
SetsCookie(res) == res.op # "none" /\ res.setCookie # Undefined

\* the token in the cookie a response sets
CookieToken(res) == ParseSetCookie(res.setCookie).value

\* the claims a token carries next to the iat and exp jwt.sign adds
OwnClaims(token) ==
  LET payload == SegmentValue(token, 2).o
  IN [k \in Keys(payload) \ {"iat", "exp"} |-> Get(payload, k)]

\* token is one the routes issue: signed with the secret chosen at start-up,
\* with the claims userId and email next to iat and exp
RouteIssued(token) ==
  /\ Len(Segments(token)) = 3
  /\ IsValidJws(Segments(token))
  /\ SignedWith(token, TwoVariables(env))
  /\ IsObj(SegmentValue(token, 2))
  /\ Keys(SegmentValue(token, 2).o) = {"userId", "email", "iat", "exp"}

\* the home page was rendered signed in
SignedIn == response.op = "home" /\ response.view = "signedIn"

\* --------------------------------------------------------------------- C13
\* C13: the secret is fixed at start-up and never changes: after any sequence
\* of register, login, logout and home requests (which issue and verify) the
\* process secret is the value chosen at initialization, every token a
\* response carries is signed with it and every token the home page accepts
\* is.
C13_SecretFixed ==
  /\ SECRET = TwoVariables(env)
  /\ (FromAuthRoute(response) /\ SetsCookie(response))
       => SignedWith(CookieToken(response), TwoVariables(env))
  /\ SignedIn => SignedWith(lastVerify.token, TwoVariables(env))

\* two users registered, a logout went by, and the home page still accepts a
\* token signed with the secret chosen at start-up
C13_Witness ==
  /\ Cardinality(users) = 2
  /\ copied
  /\ SignedIn
  /\ SignedWith(lastVerify.token, TwoVariables(env))

\* --------------------------------------------------------------------- C16
\* the email and password a request body submits
Submitted(body, field) == Member(body, field)

\* record u is the one the submitted email names and the submitted password
\* is its password
MatchesRecord(u, body) ==
  /\ IsStr(Submitted(body, "email")) /\ IsStr(Submitted(body, "password"))
  /\ u.email = Submitted(body, "email").s
  /\ u.password # Null
  /\ u.password.of = Submitted(body, "password").s

\* res reports user u and carries, as the app_session cookie, a token whose
\* claims are the id and email of u
WelcomesUser(res, u) ==
  /\ res.status = 200
  /\ Member(res.body, "success") = Bool(TRUE)
  /\ Member(Member(res.body, "data"), "id") = Str(u.id)
  /\ Member(Member(res.body, "data"), "email") = Str(u.email)
  /\ SetsCookie(res)
  /\ ParseSetCookie(res.setCookie).name = "app_session"
  /\ RouteIssued(CookieToken(res))
  /\ OwnClaims(CookieToken(res)) = [k \in {"userId", "email"} |->
                                      IF k = "userId" THEN Str(u.id) ELSE Str(u.email)]

\* C16 as stated: whenever login finds the record of the submitted email with
\* the submitted password, or register creates the record, the response
\* reports that user and carries as the app_session cookie a token whose
\* claims are exactly the userId and email of that record.
C16_AsStated ==
  [][(response = NoResponse /\ FromAuthRoute(response'))
     => /\ response'.op = "login"
           => \A u \in users :
                MatchesRecord(u, response'.request) => WelcomesUser(response', u)
        /\ response'.op = "register"
           => \A u \in users' \ users : WelcomesUser(response', u)]_vars

\* C16 amended: the same whenever the process secret is not empty.
C16_TokenForTheUser ==
  [][(response = NoResponse /\ FromAuthRoute(response') /\ SECRET # "")
     => /\ response'.op = "login"
           => \A u \in users :
                MatchesRecord(u, response'.request) => WelcomesUser(response', u)
        /\ response'.op = "register"
           => \A u \in users' \ users :
                /\ WelcomesUser(response', u)
                /\ Str(u.email) = Submitted(response'.request, "email")]_vars

\* the second user logged in and got a cookie with a token for its own id and
\* email
C16_Witness ==
  /\ response.op = "login"
  /\ \E u \in users :
       /\ u.id = "u2"
       /\ MatchesRecord(u, response.request)
       /\ WelcomesUser(response, u)

\* --------------------------------------------------------------------- C17
\* the validity window of a token: its exp less its iat, in seconds
Window(token) == EmbeddedExp(token).n - EmbeddedIat(token).n

\* C17: every session cookie login or register sets is HttpOnly, has path "/"
\* and a Max-Age of 604800 seconds, the validity window of the token in it.
C17_CookieAttributes ==
  (FromAuthRoute(response) /\ SetsCookie(response))
  => LET parsed == ParseSetCookie(response.setCookie)
     IN /\ parsed.name = "app_session"
        /\ Attribute(parsed, "HttpOnly") # Undefined
        /\ Attribute(parsed, "Path") = Text(<<"/">>)
        /\ Attribute(parsed, "Max-Age") = Text(ToDigits(SevenDays))
        /\ IsNum(EmbeddedExp(parsed.value)) /\ IsNum(EmbeddedIat(parsed.value))
        /\ Window(parsed.value) = FromDigits(Attribute(parsed, "Max-Age").chars)
        /\ Window(parsed.value) = 604800

\* register set a cookie whose Max-Age is the window of the token in it
C17_Witness ==
  /\ response.op = "register" /\ SetsCookie(response)
  /\ Window(CookieToken(response)) =
       FromDigits(Attribute(ParseSetCookie(response.setCookie), "Max-Age").chars)

\* --------------------------------------------------------------------- C18
\* res sets the app_session cookie to the empty value with an expiry that
\* has passed, and reports success
ClearsCookie(res, ms) ==
  /\ res.status = 200
  /\ Member(res.body, "message") = Str("Logged out successfully")
  /\ SetsCookie(res)
  /\ LET parsed == ParseSetCookie(res.setCookie)
     IN /\ parsed.name = "app_session"
        /\ parsed.value = <<>>
        /\ Attribute(parsed, "Path") = Text(<<"/">>)
        /\ Attribute(parsed, "Expires") # Undefined
        /\ FromDigits(Attribute(parsed, "Expires").chars) < SecondOf(ms)
        /\ Attribute(parsed, "Max-Age") = Undefined

\* C18: logout always sets the app_session cookie to the empty value with an
\* expiry in the past and reports success, whatever cookie the request
\* carried; it makes no verifySession call and changes no user record and not
\* the secret.
C18_LogoutClears ==
  [][(response = NoResponse /\ response'.op = "logout")
     => /\ ClearsCookie(response', now')
        /\ CookieAfter(cookie', response'.setCookie, now') = Undefined
        /\ lastVerify' = NoCall
        /\ users' = users
        /\ SECRET' = SECRET
        /\ env' = env]_vars

\* logout answered a request that carried a made-up cookie
C18_Witness ==
  /\ response.op = "logout"
  /\ cookie = Text(<<"not-a-token">>)
  /\ ClearsCookie(response, now)
  /\ users # {}

\* --------------------------------------------------------------------- C19
\* C19: tokens are never revoked: whatever register, login and logout
\* requests went by, a token the routes issued that has not reached its
\* expiry is accepted when the home page verifies it, also when the client
\* kept it through a logout.
C19_NeverRevoked ==
  (/\ response.op = "home"
   /\ lastVerify.t = "call"
   /\ RouteIssued(lastVerify.token)
   /\ BeforeExpiry(lastVerify.token, lastVerify.at))
  => Accepted /\ SignedIn

\* after a logout the home page accepted the token the client had kept
C19_Witness ==
  /\ copied
  /\ lastVerify.t = "call"
  /\ RouteIssued(lastVerify.token)
  /\ cookie = Text(lastVerify.token)
  /\ Accepted /\ SignedIn

\* --------------------------------------------------------------------- C20
\* C20: the home page is rendered signed in if and only if the request
\* carries a non-empty app_session cookie and verifySession returns claims
\* for it; with no cookie or an empty one verifySession is not called and
\* the page is rendered signed out; signed in, it shows the email of the
\* verified claims.
C20_HomeSession ==
  response.op = "home"
  => /\ SignedIn <=> (/\ cookie # Undefined /\ cookie.chars # <<>>
                      /\ Accepted /\ lastVerify.token = cookie.chars)
     /\ (cookie = Undefined \/ cookie.chars = <<>>)
          => lastVerify = NoCall /\ response.view = "signedOut"
     /\ (cookie # Undefined /\ cookie.chars # <<>>)
          => /\ lastVerify.t = "call" /\ lastVerify.token = cookie.chars
             /\ Rejected => response.view = "signedOut"
     /\ SignedIn => /\ response.email = Member(lastVerify.out.value, "email")
                    /\ response.email = Member(SegmentValue(cookie.chars, 2), "email")

\* the home page was rendered signed in with the email of the second user
C20_Witness ==
  /\ SignedIn
  /\ response.email = Str("c@d.com")
  /\ Accepted

\* --------------------------------------------------------------------- C12
\* handler h has made its call
Done(h) == slots[h].t = "done"

\* two calls of the same request made at the same time have the same outcome
SameInSameOut ==
  \A h \in Handlers : \A g \in Handlers :
    (Done(h) /\ Done(g) /\ slots[h].req = slots[g].req /\ slots[h].at = slots[g].at)
    => slots[h].out = slots[g].out

\* C12: a call of signSession or verifySession changes neither the process
\* secret nor the environment, the user table, any cookie or response or
\* stored call, nor what another handler holds; its outcome depends on its
\* input, the secret and the time only, so the same request at the same time
\* has the same outcome.
C12_NoSideEffects ==
  [][(\E h \in Handlers : ~Done(h) /\ Done(h)')
     => /\ SECRET' = SECRET /\ env' = env /\ now' = now
        /\ users' = users /\ cookie' = cookie /\ response' = response
        /\ last' = last /\ prev' = prev /\ lastVerify' = lastVerify
        /\ \A g \in Handlers : Done(g) => slots'[g] = slots[g]
        /\ SameInSameOut']_vars

\* two handlers verified the same token at the same time and both got its
\* claims
C12_Witness ==
  \E h \in Handlers : \E g \in Handlers :
    /\ h # g /\ Done(h) /\ Done(g)
    /\ slots[h].req.kind = "verify" /\ slots[h].req = slots[g].req
    /\ slots[h].at = slots[g].at
    /\ slots[h].out.value # Null
    /\ slots[h].out = slots[g].out

\* --------------------------------------------------------------------- C15
\* the outcome of a request when its call is the only one made, at time ms
Alone(req, ms) ==
  IF req.kind = "sign"
  THEN signSession(req.payload, req.opts, TwoVariables(env), ms)
  ELSE verifySession(req.token, TwoVariables(env), ms)

\* C15: however the calls of the request handlers interleave, each call has
\* the outcome it has when made alone at the same time, and a step of one
\* handler leaves what every other handler holds as it was.
C15_Interleaving ==
  [][/\ \A h \in Handlers : Done(h)' => slots'[h].out = Alone(slots'[h].req, slots'[h].at)
     /\ \A h \in Handlers : \A g \in Handlers :
          (h # g /\ slots'[h] # slots[h]) => slots'[g] = slots[g]]_vars

\* while one handler waited with a verify request, another signed claims of
\* its own, and both calls were made with different outcomes
C15_Witness ==
  \E h \in Handlers : \E g \in Handlers :
    /\ Done(h) /\ Done(g)
    /\ slots[h].req.kind = "sign" /\ slots[g].req.kind = "verify"
    /\ slots[h].out.t = "return"
    /\ slots[g].out.value # Null
    /\ slots[h].at = slots[g].at

\* --------------------------------------------------------------------- C21
\* the email the request body submits is the email of a record of the table
NamesExisting(body, table) ==
  /\ IsStr(Submitted(body, "email"))
  /\ \E u \in table : u.email = Submitted(body, "email").s

\* the request body passes the checks of the register schema
WellFormed(body) ==
  \A i \in 1..Len(RegisterSchema) :
    FieldOk(RegisterSchema[i], Submitted(body, RegisterSchema[i].k))

\* res refuses with the error given: status 400, success false, no cookie
Refuses(res, error) ==
  /\ res.status = 400
  /\ Member(res.body, "success") = Bool(FALSE)
  /\ Member(res.body, "error") = Str(error)
  /\ ~SetsCookie(res)

\* C21 as stated: register with an email that already has a user record
\* returns status 400 with success false and the error "Email already
\* registered", creates no record, changes no record and sets no cookie.
C21_AsStated ==
  [][(/\ response = NoResponse
      /\ response'.op = "register"
      /\ NamesExisting(response'.request, users))
     => /\ Refuses(response', "Email already registered")
        /\ users' = users]_vars

\* C21 amended: the same for a register request whose name, email and
\* password pass the schema; one that does not is refused with the message of
\* the schema, and it too creates no record and sets no cookie.
C21_DuplicateRefused ==
  [][(/\ response = NoResponse
      /\ response'.op = "register"
      /\ NamesExisting(response'.request, users))
     => /\ response'.status = 400
        /\ Member(response'.body, "success") = Bool(FALSE)
        /\ ~SetsCookie(response')
        /\ users' = users
        /\ WellFormed(response'.request)
             => Refuses(response', "Email already registered")]_vars

\* a well-formed register request for an email on record was refused
C21_Witness ==
  /\ response.op = "register"
  /\ WellFormed(response.request)
  /\ NamesExisting(response.request, users)
  /\ Refuses(response, "Email already registered")

\* --------------------------------------------------------------------- C22
\* handler h has answered a register request for email with success and a
\* session cookie
Registered(h, email) ==
  /\ slots[h].t = "done"
  /\ Submitted(slots[h].body, "email") = Str(email)
  /\ Member(slots[h].res.body, "success") = Bool(TRUE)
  /\ SetsCookie(slots[h].res)

\* the emails register requests are made for
RaceEmails == {Submitted(body, "email").s : body \in RaceBodies}

\* C22: under every interleaving of concurrent register requests, split at
\* the awaits of the lookup, the hashing and the create, the user table holds
\* at most one record per email and at most one of the concurrent
\* registrations for an email answers with success and a session cookie; a
\* registration that answers so is the one that created the record.
C22_OneRecordPerEmail ==
  /\ [](/\ \A u, v \in users : u.email = v.email => u = v
        /\ \A email \in RaceEmails :
             Cardinality({h \in Handlers : Registered(h, email)}) <= 1)
  /\ [][\A h \in Handlers : \A email \in RaceEmails :
          (Registered(h, email)' /\ ~Registered(h, email))
            => /\ ~EmailIndexed(users, email)
               /\ EmailIndexed(users', email)]_vars

\* two handlers passed the lookup for one email side by side: the first to
\* create answered with success, the other ran into the unique index
C22_Witness ==
  \E h, g \in Handlers :
    /\ Registered(h, "a@b.com")
    /\ slots[g].t = "done"
    /\ Submitted(slots[g].body, "email") = Str("a@b.com")
    /\ Refuses(slots[g].res, "Unique constraint failed on the fields: (email)")
    /\ Cardinality({u \in users : u.email = "a@b.com"}) = 1

\* --------------------------------------------------------------------- C23
\* C23: after register(name, e, p) succeeded (the record of e is in the table
\* and the process could sign its token), login(e, p) succeeds with a session
\* cookie for the id of that record; login(e, p') with any other password
\* and login for an email without record answer 400 without cookie.
C23_LoginAfterRegister ==
  [][(response = NoResponse /\ response'.op = "login")
     => /\ \A u \in users :
             (SECRET # "" /\ MatchesRecord(u, response'.request))
               => WelcomesUser(response', u)
        /\ (~\E u \in users : MatchesRecord(u, response'.request))
             => /\ response'.status = 400
                /\ Member(response'.body, "success") = Bool(FALSE)
                /\ ~SetsCookie(response')]_vars

\* two users are registered and one of them logged in with the password it
\* registered with: the cookie carries that user's id
C23_Witness ==
  /\ Cardinality(users) = 2
  /\ response.op = "login"
  /\ \E u \in users :
       /\ MatchesRecord(u, response.request)
       /\ WelcomesUser(response, u)
       /\ OwnClaims(CookieToken(response))["userId"] = Str(u.id)

\* --------------------------------------------------------------------- C24
\* the request body passes the checks of the login schema
WellFormedLogin(body) ==
  \A i \in 1..Len(LoginSchema) :
    FieldOk(LoginSchema[i], Submitted(body, LoginSchema[i].k))

\* the one body of a refused login
InvalidCredentials ==
  Obj(<<Prop("success", Bool(FALSE)), Prop("error", Str("Invalid email or password"))>>)

\* C24: login does not tell whether an email is registered: a well-formed
\* login for an email without record, for a record without password and for
\* a record with another password are all answered with status 400 and the
\* same body, success false and error "Invalid email or password" (the
\* database and bcrypt answering).
C24_SameRefusal ==
  [][(/\ response = NoResponse
      /\ response'.op = "login"
      /\ response'.fault = NoFault
      /\ WellFormedLogin(response'.request)
      /\ ~\E u \in users : MatchesRecord(u, response'.request))
     => /\ response'.status = 400
        /\ response'.body = InvalidCredentials
        /\ ~SetsCookie(response')]_vars

\* a login with a wrong password for a registered email was answered as a
\* login for the email of nobody is, while a record without password exists
C24_Witness ==
  /\ response.op = "login"
  /\ response.fault = NoFault
  /\ \E u \in users : u.password = Null
  /\ \E u \in users :
       /\ Str(u.email) = Submitted(response.request, "email")
       /\ u.password # Null
       /\ ~MatchesRecord(u, response.request)
  /\ response.status = 400
  /\ response.body = LoginRoute(LoginBody("c@d.com", "otherpass"), {}, SECRET, now, NoFault).body

\* --------------------------------------------------------------------- C25
\* C25: a session cookie is set only on success: every login or register
\* response that does not report success (schema failure, unknown email,
\* wrong password, duplicate email or any caught error) has no Set-Cookie
\* header and hands no token to the client: its body holds success and error
\* only, and the browser that receives it keeps the cookie it had.
C25_CookieOnlyOnSuccess ==
  /\ [](( /\ FromAuthRoute(response)
          /\ Member(response.body, "success") # Bool(TRUE))
        => /\ ~SetsCookie(response)
           /\ IsObj(response.body)
           /\ Keys(response.body.o) = {"success", "error"})
  /\ [][( /\ FromAuthRoute(response)
          /\ Member(response.body, "success") # Bool(TRUE)
          /\ response' = NoResponse)
        => cookie' = cookie]_vars

\* a browser that holds a session cookie was refused a login with a wrong
\* password: the response sets no cookie
C25_Witness ==
  /\ cookie # Undefined
  /\ response.op = "login"
  /\ response.body = InvalidCredentials
  /\ \E u \in users : Str(u.email) = Submitted(response.request, "email")
  /\ ~SetsCookie(response)

\* --------------------------------------------------------------------- C26
\* something failed on the way to the response res: the body is no JSON or
\* fails the schema, the await of the lookup, the hashing, the create or the
\* comparison was reached and rejected, or the token could not be signed
SomethingFailed(res) ==
  \/ res.request = NotJson
  \/ res.op = "login" /\ ~WellFormedLogin(res.request)
  \/ res.op = "register" /\ ~WellFormed(res.request)
  \/ res.fault = "lookup"
  \/ /\ res.fault \in {"hash", "create"}
     /\ ~NamesExisting(res.request, users)
  \/ /\ res.fault = "compare"
     /\ \E u \in users : /\ Str(u.email) = Submitted(res.request, "email")
                          /\ u.password # Null
  \/ SECRET = ""

\* C26: the login and register handlers let no exception out: every response
\* is a JSON response with status 200 or 400, and whenever body parsing, the
\* schema, the lookup or the create, the hashing or the comparison, or the
\* issuing of the token failed, the response has status 400, success false
\* and an error message.
C26_NothingPropagates ==
  FromAuthRoute(response)
    => /\ response.status \in {200, 400}
       /\ IsObj(response.body)
       /\ SomethingFailed(response)
            => /\ response.status = 400
               /\ Member(response.body, "success") = Bool(FALSE)
               /\ IsStr(Member(response.body, "error"))
               /\ Member(response.body, "error").s # ""

\* the create of a new record failed and the register route answered 400 with
\* the message of the error
C26_Witness ==
  /\ response.op = "register"
  /\ response.fault = "create"
  /\ WellFormed(response.request)
  /\ ~NamesExisting(response.request, users)
  /\ response.status = 400
  /\ Member(response.body, "error") = Str("Can't reach database server")

\* --------------------------------------------------------------------- C27
\* handler h verified a token and got null
InvalidAt(h) == slots[h].t = "done" /\ slots[h].out = Return(Null)

\* handler g verified, no earlier than handler h did, the token h verified
VerifiedAgain(h, g) ==
  /\ slots[h].t = "done" /\ slots[g].t = "done"
  /\ slots[g].req = slots[h].req
  /\ slots[h].at <= slots[g].at

\* the nbf token embeds lies after time ms
NotYetActive(token, ms) ==
  /\ Decodable(token)
  /\ IsNum(EmbeddedNbf(token))
  /\ EmbeddedNbf(token).n > SecondOf(ms)

\* the exp token embeds has passed at time ms
ExpiredAt(token, ms) ==
  /\ Decodable(token)
  /\ IsNum(EmbeddedExp(token))
  /\ SecondOf(ms) >= EmbeddedExp(token).n

\* C27 as stated: with a clock that does not go back and the fixed secret,
\* once verifySession has returned null for a token string it returns null
\* for that string at every later time.
C27_AsStated ==
  \A h, g \in Handlers : (VerifiedAgain(h, g) /\ InvalidAt(h)) => InvalidAt(g)

\* C27 amended: once verifySession has returned null for a token string at a
\* time that is not before the nbf the token embeds, it returns null for
\* that string at every later time; and a token whose exp has passed is
\* refused at every later time.
C27_MonotoneOnceActive ==
  \A h, g \in Handlers :
    VerifiedAgain(h, g)
      => /\ (InvalidAt(h) /\ ~NotYetActive(slots[h].req.token, slots[h].at))
              => InvalidAt(g)
         /\ ExpiredAt(slots[h].req.token, slots[h].at) => InvalidAt(g)

\* a token this process signed, good at start-up, was refused once its exp
\* had passed and refused again at a later time
C27_Witness ==
  \E h, g \in Handlers :
    /\ VerifiedAgain(h, g)
    /\ slots[h].at < slots[g].at
    /\ SignedWith(slots[h].req.token, SECRET)
    /\ BeforeExpiry(slots[h].req.token, StartMs)
    /\ ExpiredAt(slots[h].req.token, slots[h].at)
    /\ InvalidAt(h) /\ InvalidAt(g)

\* --------------------------------------------------------------------- C28
\* a form is shown
OnForm == page.view \in FormViews

\* C28: in the sign-in and sign-up forms each submission sets loading to true
\* and clears the previous error before the request goes out; loading stays
\* true and the error cleared while the request is under way; when the
\* submission is over, by a success response, a failure response or a thrown
\* fetch or JSON error, loading is false; and a form that is loading
\* eventually stops loading.
C28_LoadingResets ==
  /\ [][(OnForm /\ page.pc = "idle" /\ page'.pc = "fetch")
          => (page'.loading /\ page'.error = Null)]_vars
  /\ [](OnForm => /\ page.pc # "idle" => (page.loading /\ page.error = Null)
                  /\ page.pc = "idle" => ~page.loading)
  /\ ((OnForm /\ page.loading) ~> ~page.loading)

\* a sign-up ended in a thrown JSON error after an earlier one ended in a
\* thrown fetch error or a refusal: the form shows the error and no longer
\* loads
C28_Witness ==
  /\ page.view = "signup"
  /\ page.pc = "idle"
  /\ page.error = Str("Unexpected token < in JSON")
  /\ ~page.loading

\* --------------------------------------------------------------------- C29
\* the body of the response reports success
ReportsSuccess(res) == res.body # NotJson /\ Member(res.body, "success") = Bool(TRUE)

\* C29: client navigation follows the server outcome. A form submission that
\* ends calls router.push("/") exactly when the body of the response it
\* received has success true, leaving the error null; in every other case
\* (a refusal, a body that is no JSON, a failed fetch) it sets an error that
\* is not null and pushes nothing. The logout button calls
\* router.push("/signin") only when it received a response that is ok, and
\* otherwise the page stays.
C29_NavigationFollows ==
  [][(page.pc # "idle" /\ page'.pc = "idle")
     => /\ (OnForm /\ page.pc = "json" /\ ReportsSuccess(page.resp))
             => (page'.pushed = Str("/") /\ page'.error = Null)
        /\ (OnForm /\ ~(page.pc = "json" /\ ReportsSuccess(page.resp)))
             => (page'.pushed = Null /\ page'.error # Null)
        /\ page.view = "home"
             => /\ page'.view = "home"
                /\ page'.pushed # Null
                     => /\ page'.pushed = Str("/signin")
                        /\ response # NoResponse
                        /\ ResOk(response)]_vars

\* a user who signed in and was taken to the home page logged out: the
\* cookie is gone and the button pushed the sign-in page
C29_Witness ==
  /\ page.view = "home"
  /\ page.pc = "idle"
  /\ page.pushed = Str("/signin")
  /\ cookie = Undefined
  /\ users # {}

====
